---------------------------- MODULE Spec2Model ----------------------------
(***************************************************************************)
(* The report normalizers of the security dashboard (src/utils/parsers.py) *)
(* as a state machine: one action per normalizer call.  A call takes a raw *)
(* upload, and leaves either a normalized report or the ValueError the     *)
(* normalizer raised.                                                      *)
(*                                                                         *)
(* Raw text is modelled by what the two parsers of the standard library    *)
(* make of it: a JSON text by the value json.loads returns, an XML text by *)
(* its element tree as written (prefixes and xmlns declaration unresolved),*)
(* anything else as text neither parser accepts.                           *)
(***************************************************************************)
EXTENDS Integers, Sequences, FiniteSets, TLC

VARIABLES call, content, result, pc, sent, fetch, rows, tx, latest, heat,
          hashseed, kept, disk, projects

\* The normalizer call in progress; the fetch from the SonarQube server in
\* progress: its position, the requests it has issued, what it has read; the
\* reports table of one project, the set_report call of each request in
\* progress and the data of the last set_report completed for each report
\* type; the heatmap entry being computed.
parserVars == <<call, content, result>>
fetchVars == <<pc, sent, fetch>>
storeVars == <<rows, tx, latest>>
processVars == <<hashseed, kept>>
appVars == <<disk, projects>>
vars == <<call, content, result, pc, sent, fetch, rows, tx, latest, heat,
          hashseed, kept, disk, projects>>

-----------------------------------------------------------------------------
(* Bounds of the model.                                                    *)

\* longest list of vulnerabilities / results / components / measures drawn
MaxItems == 2
\* most child elements under the root of a drawn XML document
MaxElems == 2
\* how far past a cap the bulk documents go
MaxOver == 1

-----------------------------------------------------------------------------
(* Python values.                                                          *)

\* JSON values as json.loads returns them, tagged by their Python type.
JNull == [k |-> "null"]
JStr(s) == [k |-> "str", v |-> s]
JNum(n) == [k |-> "num", v |-> n]
JList(seq) == [k |-> "list", v |-> seq]
JObj(f) == [k |-> "obj", v |-> f]

\* Python's None where a string is expected (an element without text, a loop
\* pass that counts nothing).
None == "<None>"

\* The dict with no key.
EmptyDict == [x \in {} |-> JNull]

\* dict.get(key, default)
Get(d, key, default) == IF key \in DOMAIN d THEN d[key] ELSE default

\* Outcomes of a call: the returned value, or the exception raised.
Ok(r) == [ok |-> TRUE, value |-> r]
Raise(exc, msg) == [ok |-> FALSE, exc |-> exc, msg |-> msg]

\* bool(x) of a JSON value: None, an empty list, string or dict and 0 are falsy.
Truthy(x) ==
    CASE x.k = "null" -> FALSE
      [] x.k = "list" -> x.v # <<>>
      [] x.k = "str" -> x.v # ""
      [] x.k = "obj" -> DOMAIN x.v # {}
      [] x.k = "num" -> x.v # 0
      [] OTHER -> TRUE

\* What a for loop over a JSON value passes to its body, when the body calls
\* .get on each item: the elements of a list; an empty string or dict gives
\* no pass, any other string or dict gives a string first (a character, a
\* key), on which .get raises; None and numbers are not iterable.
ItemsWithGet(x) ==
    CASE x.k = "list" -> Ok(x.v)
      [] x.k \in {"str", "obj"} ->
            IF Truthy(x) THEN Raise("AttributeError", "get") ELSE Ok(<<>>)
      [] OTHER -> Raise("TypeError", "not iterable")

\* str.upper() and str.lower() on the strings the model draws.
Upper(s) ==
    CASE s \in {"critical", "Critical", "CRITICAL"} -> "CRITICAL"
      [] s \in {"high", "High", "HIGH"} -> "HIGH"
      [] s \in {"medium", "Medium", "MEDIUM"} -> "MEDIUM"
      [] s \in {"low", "Low", "LOW"} -> "LOW"
      [] s \in {"info", "Info", "INFO"} -> "INFO"
      [] s \in {"unknown", "Unknown", "UNKNOWN"} -> "UNKNOWN"
      [] s \in {"bogus", "BOGUS"} -> "BOGUS"
      [] OTHER -> s

Lower(s) ==
    CASE s \in {"critical", "Critical", "CRITICAL"} -> "critical"
      [] s \in {"high", "High", "HIGH"} -> "high"
      [] s \in {"medium", "Medium", "MEDIUM"} -> "medium"
      [] s \in {"low", "Low", "LOW"} -> "low"
      [] s \in {"info", "Info", "INFO"} -> "info"
      [] s \in {"unknown", "Unknown", "UNKNOWN"} -> "unknown"
      [] s \in {"bogus", "BOGUS"} -> "bogus"
      [] OTHER -> s

\* json.loads(content): the value of a JSON text, JSONDecodeError otherwise.
json_loads(c) ==
    IF c.syntax = "json" THEN Ok(c.data) ELSE Raise("JSONDecodeError", "")

\* A JSON text holding the value d, and a text that is neither JSON nor XML.
JsonText(d) == [syntax |-> "json", data |-> d]
GarbageText == [syntax |-> "invalid"]

\* All sequences over S of length at most n.
SeqUpTo(S, n) == UNION {[1..m -> S] : m \in 0..n}

\* Sum of the values of a dict of counters.
RECURSIVE SumOver(_, _)
SumOver(f, keys) ==
    IF keys = {} THEN 0
    ELSE LET key == CHOOSE x \in keys : TRUE
         IN f[key] + SumOver(f, keys \ {key})

SumValues(f) == SumOver(f, DOMAIN f)

-----------------------------------------------------------------------------
(* parse_trivy_report                                                      *)

TrivySeverityKeys == {"CRITICAL", "HIGH", "MEDIUM", "LOW", "UNKNOWN"}

TrivyZeroCounts == [s \in TrivySeverityKeys |-> 0]

\* TrivyCountVuln without the upper-casing of the severity.
TrivyCountVuln_NoUpper(acc, vuln) ==
    IF ~acc.ok THEN acc
    ELSE IF vuln.k # "obj" THEN Raise("AttributeError", "get")
    ELSE LET sev == Get(vuln.v, "Severity", JStr("UNKNOWN")) IN
         IF sev.k # "str" THEN Raise("AttributeError", "upper")
         ELSE LET key == IF sev.v \in TrivySeverityKeys THEN sev.v ELSE "UNKNOWN"
              IN Ok([counts |-> [acc.value.counts EXCEPT ![key] = @ + 1],
                     total |-> acc.value.total + 1])

\* One pass of the inner loop body: the counters after one vulnerability.
\* acc is [counts, total] or the exception a previous pass raised.
TrivyCountVuln(acc, vuln) ==
    IF ~acc.ok THEN acc
    ELSE IF vuln.k # "obj" THEN Raise("AttributeError", "get")
    ELSE LET sev == Get(vuln.v, "Severity", JStr("UNKNOWN")) IN
         IF sev.k # "str" THEN Raise("AttributeError", "upper")
         ELSE LET severity == Upper(sev.v)
                  key == IF severity \in TrivySeverityKeys
                         THEN severity ELSE "UNKNOWN"
              IN Ok([counts |-> [acc.value.counts EXCEPT ![key] = @ + 1],
                     total |-> acc.value.total + 1])

RECURSIVE TrivyVulnLoop(_, _, _)
TrivyVulnLoop(acc, vulns, i) ==
    IF i > Len(vulns) THEN acc
    ELSE TrivyVulnLoop(TrivyCountVuln(acc, vulns[i]), vulns, i + 1)

\* One pass of the outer loop body: one result's vulnerability list.
TrivyCountResult(acc, res) ==
    IF ~acc.ok THEN acc
    ELSE IF res.k # "obj" THEN Raise("AttributeError", "get")
    ELSE LET vulnerabilities == ItemsWithGet(Get(res.v, "Vulnerabilities", JList(<<>>))) IN
         IF ~vulnerabilities.ok THEN vulnerabilities
         ELSE TrivyVulnLoop(acc, vulnerabilities.value, 1)

RECURSIVE TrivyResultLoop(_, _, _)
TrivyResultLoop(acc, results, i) ==
    IF i > Len(results) THEN acc
    ELSE TrivyResultLoop(TrivyCountResult(acc, results[i]), results, i + 1)

\* The try block of parse_trivy_report on the loaded value.
TrivyBody(data) ==
    IF data.k # "obj" THEN Raise("AttributeError", "get")
    ELSE LET results == Get(data.v, "Results", JList(<<>>))
             items == ItemsWithGet(results) IN
         IF ~items.ok THEN items
         ELSE LET acc == TrivyResultLoop(
                            Ok([counts |-> TrivyZeroCounts, total |-> 0]),
                            items.value, 1)
              IN IF ~acc.ok THEN acc
                 ELSE Ok([artifact_name |->
                              Get(data.v, "ArtifactName", JStr("Unknown")),
                          artifact_type |->
                              Get(data.v, "ArtifactType", JStr("Unknown")),
                          schema_version |->
                              Get(data.v, "SchemaVersion", JStr("Unknown")),
                          vulnerabilities |->
                              [total |-> acc.value.total,
                               by_severity |-> acc.value.counts],
                          results |-> results,
                          raw_data |-> data])

parse_trivy_report(c) ==
    LET loaded == json_loads(c) IN
    IF ~loaded.ok
    THEN Raise("ValueError", "Invalid JSON format in Trivy report")
    ELSE LET r == TrivyBody(loaded.value) IN
         IF r.ok THEN r
         ELSE Raise("ValueError", "Error parsing Trivy report")

-----------------------------------------------------------------------------
(* Image-scan uploads drawn by the model.                                  *)

TrivySeverityValues ==
    {JStr("HIGH"), JStr("high"), JStr("CRITICAL"), JStr("Medium"),
     JStr("low"), JStr("unknown"), JStr("bogus"), JNull}

TrivyVulns ==
    {JObj([VulnerabilityID |-> JStr("CVE-1")])}
    \cup {JObj([Severity |-> s]) : s \in TrivySeverityValues}

TrivyResults ==
    {JObj([Target |-> JStr("t")]), JObj([Vulnerabilities |-> JNull]),
     JObj([Vulnerabilities |-> JObj(EmptyDict)])}
    \cup {JObj([Vulnerabilities |-> JList(vs)]) : vs \in SeqUpTo(TrivyVulns, MaxItems)}

\* Scenario B of the specification: one result, four vulnerabilities.
TrivyScenarioB ==
    JObj([Results |-> JList(<<JObj([Vulnerabilities |-> JList(
        <<JObj([Severity |-> JStr("HIGH")]), JObj([Severity |-> JStr("high")]),
          JObj([Severity |-> JStr("CRITICAL")]), JObj([Severity |-> JStr("bogus")])>>)])>>)])

TrivyData ==
    {JList(<<>>), JNum(42), JObj(EmptyDict), JObj([Results |-> JNull]),
     JObj([Results |-> JStr("")]), JObj([Results |-> JStr("none")]), TrivyScenarioB}
    \cup {JObj([Results |-> JList(rs)]) : rs \in SeqUpTo(TrivyResults, 1)}
    \cup {JObj([ArtifactName |-> JStr("img"), ArtifactType |-> JStr("container_image"),
                SchemaVersion |-> JNum(2), Results |-> JList(rs)])
            : rs \in SeqUpTo({r \in TrivyResults : "Vulnerabilities" \in DOMAIN r.v
                                                   /\ r.v["Vulnerabilities"].k = "list"
                                                   /\ Len(r.v["Vulnerabilities"].v) <= 1},
                             MaxItems)}

TrivyContents == {GarbageText} \cup {JsonText(d) : d \in TrivyData}

-----------------------------------------------------------------------------
(* parse_trivy_html_report                                                 *)

\* An HTML text, by the elements BeautifulSoup(content, 'html.parser') makes
\* of it: the text of its first title and of its first h1 (None without one),
\* its tables that are in no other table, each the list of its tr rows, each
\* row the list of its td cells, and its other text nodes, each with the text
\* of its parent element.  A cell has a text of its own and may hold a table
\* (inner, <<>> when it holds none).  html.parser rejects no text.
HtmlText(title, h1, tables, nodes) ==
    [syntax |-> "html", title |-> title, h1 |-> h1, tables |-> tables, nodes |-> nodes]

TextNode(text, parent) == [text |-> text, parent |-> parent]

Cell(text) == [text |-> text, inner |-> <<>>]
NestingCell(text, table) == [text |-> text, inner |-> table]

RECURSIVE Concat(_, _)
Concat(seqs, i) == IF i > Len(seqs) THEN <<>> ELSE seqs[i] \o Concat(seqs, i + 1)

\* table.find_all('tr'): the rows of the table and of the tables in its
\* cells, in document order.
RECURSIVE find_all_tr(_)
find_all_tr(table) ==
    Concat([r \in DOMAIN table |->
               <<table[r]>>
               \o Concat([k \in DOMAIN table[r] |-> find_all_tr(table[r][k].inner)], 1)], 1)

\* row.find_all('td'): the cells of the row and of the tables in them, in
\* document order.
RECURSIVE find_all_td(_)
find_all_td(row) ==
    Concat([k \in DOMAIN row |->
               <<row[k]>>
               \o Concat([r \in DOMAIN row[k].inner |-> find_all_td(row[k].inner[r])], 1)], 1)

\* soup.find_all('table'): the tables and the tables in their cells, in
\* document order.
RECURSIVE find_all_table(_)
find_all_table(tables) ==
    Concat([t \in DOMAIN tables |->
               <<tables[t]>>
               \o LET nesting == SelectSeq(find_all_td(Concat(tables[t], 1)),
                                           LAMBDA cell : cell.inner # <<>>)
                  IN [i \in DOMAIN nesting |-> nesting[i].inner]], 1)

\* cell.get_text(): the text of the cell and of all that is in it.
RECURSIVE JoinText(_, _)
JoinText(cells, i) ==
    IF i > Len(cells) THEN "" ELSE cells[i].text \o JoinText(cells, i + 1)

get_text(cell) == JoinText(find_all_td(<<cell>>), 1)

\* str.strip() on the strings the model draws.
Strip(s) ==
    CASE s = " HIGH " -> "HIGH"
      [] s = " Image scan " -> "Image scan"
      [] s = " app " -> "app"
      [] s = "  " -> ""
      [] OTHER -> s

\* str.startswith('CVE-') on the strings the model draws.
StartsWithCve(s) == s \in {"CVE-2024-1", "CVE-2023-7"}

\* re.compile(severity, re.IGNORECASE) found in a text node, for the strings
\* the model draws: the severities of the summary loop the text mentions.
Mentions(s) ==
    CASE s \in {"HIGH", " HIGH ", "high", "High: "} -> {"HIGH"}
      [] s \in {"Critical: 5", "critical", "Critical findings 2"} -> {"CRITICAL"}
      [] s = "3 high, 2 critical" -> {"HIGH", "CRITICAL"}
      [] s \in {"Medium", "medium"} -> {"MEDIUM"}
      [] s \in {"LOW", "Low 0"} -> {"LOW"}
      [] OTHER -> {}

\* re.findall(r'\d+', text)[0] as an int, for the strings the model draws;
\* -1 when the text has no digit.
FirstNumber(s) ==
    CASE s \in {"Critical: 5"} -> 5
      [] s \in {"3 high, 2 critical", "High: 3"} -> 3
      [] s = "Critical findings 2" -> 2
      [] s = "5.1" -> 5
      [] s \in {"CVE-2024-1"} -> 2024
      [] s \in {"CVE-2023-7"} -> 2023
      [] s \in {"1.0", "1.2", "GHSA-1"} -> 1
      [] s = "Low 0" -> 0
      [] OTHER -> -1

\* The artifact name: the stripped text of the title, else of the h1.
HtmlArtifactName(c) ==
    IF c.title # None THEN Strip(c.title)
    ELSE IF c.h1 # None THEN Strip(c.h1)
    ELSE "Unknown"

\* The rows the loops reach, each as the texts of the cells found in it: of
\* every table found, all the rows found in it but the first, in order.
HtmlRows(c) ==
    LET tables == find_all_table(c.tables)
        cells(row) == [k \in DOMAIN find_all_td(row) |-> get_text(find_all_td(row)[k])]
    IN Concat([t \in DOMAIN tables |->
                  LET trs == find_all_tr(tables[t])
                  IN [r \in 1..(Len(trs) - 1) |-> cells(trs[r + 1])]], 1)

\* The severity of a row: the upper-cased stripped text of its first cell
\* that is one of the five labels, None without such a cell.
HtmlSeverityCell(cells) ==
    LET labelled == {i \in DOMAIN cells : Upper(Strip(cells[i])) \in TrivySeverityKeys} IN
    IF labelled = {} THEN None
    ELSE Upper(Strip(cells[CHOOSE i \in labelled : \A j \in labelled : i <= j]))

\* The vulnerability dict of a row of at least four cells.
HtmlVulnerability(cells) ==
    LET severity_cell == HtmlSeverityCell(cells) IN
    JObj((IF StartsWithCve(Strip(cells[1]))
          THEN [VulnerabilityID |-> JStr(Strip(cells[1]))] ELSE EmptyDict)
         @@ (IF severity_cell # None
             THEN [Severity |-> JStr(severity_cell)] ELSE EmptyDict)
         @@ [PkgName |-> JStr(Strip(cells[2])),
             InstalledVersion |-> JStr(Strip(cells[3])),
             Title |-> JStr(Strip(cells[4]))])

\* The text nodes of the document: of the title, the h1 and the cells, and
\* the others.
HtmlTextNodes(c) ==
    (IF c.title # None THEN <<TextNode(c.title, c.title)>> ELSE <<>>)
    \o (IF c.h1 # None THEN <<TextNode(c.h1, c.h1)>> ELSE <<>>)
    \o LET cells == Concat(Concat([t \in DOMAIN c.tables |->
                                      find_all_tr(c.tables[t])], 1), 1)
       IN [i \in DOMAIN cells |-> TextNode(cells[i].text, get_text(cells[i]))]
    \o c.nodes

\* HtmlSummaryCount counting 1 for a mention whose parent's text has no number.
HtmlSummaryCount_CountsMentions(nodes, severity) ==
    LET counted == {i \in DOMAIN nodes : severity \in Mentions(nodes[i].text)}
    IN SumOver([i \in counted |->
                   IF FirstNumber(nodes[i].parent) >= 0
                   THEN FirstNumber(nodes[i].parent) ELSE 1], counted)

\* The summary loop for one severity: the sum, over the text nodes that
\* mention it, of the first number in the text of the node's parent.
HtmlSummaryCount(nodes, severity) ==
    LET counted == {i \in DOMAIN nodes :
                       /\ severity \in Mentions(nodes[i].text)
                       /\ FirstNumber(nodes[i].parent) >= 0}
    IN SumOver([i \in counted |-> FirstNumber(nodes[i].parent)], counted)

\* HtmlSeverityCounts without the initial counters: only the severities
\* found have a key.
HtmlSeverityCounts_Sparse(table_rows, nodes) ==
    LET labelled == {i \in DOMAIN table_rows : HtmlSeverityCell(table_rows[i]) # None}
        found == {HtmlSeverityCell(table_rows[i]) : i \in labelled}
    IN [s \in found |-> Cardinality({i \in labelled : HtmlSeverityCell(table_rows[i]) = s})]

\* severity_counts: one for every row with a severity cell; when no row has
\* one, the summary counts of CRITICAL, HIGH, MEDIUM and LOW.
HtmlSeverityCounts(table_rows, nodes) ==
    LET labelled == {i \in DOMAIN table_rows : HtmlSeverityCell(table_rows[i]) # None} IN
    IF labelled # {}
    THEN [s \in TrivySeverityKeys |->
             Cardinality({i \in labelled : HtmlSeverityCell(table_rows[i]) = s})]
    ELSE [s \in TrivySeverityKeys |->
             IF s = "UNKNOWN" THEN 0 ELSE HtmlSummaryCount(nodes, s)]

\* raw_data holding the content itself.
HtmlRawData_Unwrapped(c) == c

\* raw_data: a dict holding the content under 'html_content'.
HtmlRawData(c) == JObj([html_content |-> c])

parse_trivy_html_report(c) ==
    LET artifact_name == HtmlArtifactName(c)
        table_rows == SelectSeq(HtmlRows(c), LAMBDA cells : Len(cells) >= 4)
        severity_counts == HtmlSeverityCounts(table_rows, HtmlTextNodes(c))
    IN Ok([artifact_name |-> JStr(artifact_name),
           artifact_type |-> JStr("container"),
           schema_version |-> JStr("HTML"),
           vulnerabilities |-> [total |-> SumValues(severity_counts),
                                by_severity |-> severity_counts],
           results |-> JList(IF table_rows = <<>> THEN <<>>
                             ELSE <<JObj([Target |-> JStr(artifact_name),
                                          Type |-> JStr("container"),
                                          Vulnerabilities |->
                                              JList([i \in DOMAIN table_rows |->
                                                        HtmlVulnerability(table_rows[i])])])>>),
           raw_data |-> HtmlRawData(c)])

-----------------------------------------------------------------------------
(* HTML image-scan uploads drawn by the model.                             *)

Cells(texts) == [k \in DOMAIN texts |-> Cell(texts[k])]

HtmlHeader == Cells(<<"ID", "Package", "Version", "Severity">>)

HtmlTableRows ==
    {<<"CVE-2024-1", "openssl", "1.0", "HIGH">>,
     <<"GHSA-1", "zlib", "1.2", "critical">>,
     <<"CVE-2023-7", "bash", "5.1", "Title", " HIGH ">>,
     <<"LOW", "curl", "1.0", "Title", "HIGH">>,
     <<"CVE-2024-1", "openssl", "1.0", "bogus">>,
     <<"CVE-2024-1", "medium", "HIGH">>}

HtmlTables ==
    {<<HtmlHeader>> \o [r \in DOMAIN texts |-> Cells(texts[r])]
        : texts \in SeqUpTo(HtmlTableRows, MaxItems)}

\* A layout table whose second row holds, in its second cell, a table of
\* findings.
HtmlNestingTables ==
    {<<Cells(<<"Image", "Findings">>), <<Cell("alpine"), NestingCell("", t)>>>>
        : t \in {t \in HtmlTables : Len(t) = 2}}

HtmlNodes ==
    {TextNode("Critical: 5", "Critical: 5"), TextNode("High: ", "High: 3"),
     TextNode("3 high, 2 critical", "3 high, 2 critical"),
     TextNode("Medium", "Medium"), TextNode("Low 0", "Low 0"),
     TextNode("No vulnerabilities", "No vulnerabilities")}

HtmlContents ==
    {HtmlText(None, None, <<>>, <<>>),
     HtmlText(" Image scan ", "Report", <<>>, <<>>),
     HtmlText(None, "Critical findings 2", <<>>, <<>>),
     HtmlText("", None, <<<<>>>>, <<>>)}
    \cup {HtmlText("Image scan", None, <<t>>, ns)
            : t \in HtmlTables, ns \in SeqUpTo(HtmlNodes, 1)}
    \cup {HtmlText(None, "Report", <<>>, ns) : ns \in SeqUpTo(HtmlNodes, MaxItems)}
    \cup {HtmlText(None, None, <<t1, t2>>, <<>>)
            : t1 \in {t \in HtmlTables : Len(t) = 2}, t2 \in {t \in HtmlTables : Len(t) <= 2}}
    \cup {HtmlText("Image scan", None, <<t>>, <<>>) : t \in HtmlNestingTables}

-----------------------------------------------------------------------------
(* parse_sonarqube_report                                                  *)

\* A Python float, kept in tenths (73.2 is 732 tenths).
PyFloat(t) == [k |-> "float", tenths |-> t]

\* int(str) on the strings the model draws: the integer a decimal literal
\* denotes (surrounding blanks allowed); any other string is a ValueError.
IntLiteral(s) ==
    CASE s = "0" -> Ok(0)
      [] s = "3" -> Ok(3)
      [] s = "5" -> Ok(5)
      [] s = " 5 " -> Ok(5)
      [] s = "7" -> Ok(7)
      [] s = "12" -> Ok(12)
      [] s = "80" -> Ok(80)
      [] OTHER -> Raise("ValueError", "invalid literal for int()")

\* float(str) on the strings the model draws, in tenths.
FloatLiteral(s) ==
    CASE s = "0" -> Ok(PyFloat(0))
      [] s = "3" -> Ok(PyFloat(30))
      [] s = "5" -> Ok(PyFloat(50))
      [] s = " 5 " -> Ok(PyFloat(50))
      [] s = "5.0" -> Ok(PyFloat(50))
      [] s = "7" -> Ok(PyFloat(70))
      [] s = "12" -> Ok(PyFloat(120))
      [] s = "73.2" -> Ok(PyFloat(732))
      [] s = "80" -> Ok(PyFloat(800))
      [] OTHER -> Raise("ValueError", "could not convert string to float")

\* int(x) for a JSON value x: a number as it is (a float truncated), a string
\* by its literal; None, a list or a dict is a TypeError.
int(x) ==
    CASE x.k = "num" -> Ok(x.v)
      [] x.k = "float" -> Ok(x.tenths \div 10)
      [] x.k = "str" -> IntLiteral(x.v)
      [] OTHER -> Raise("TypeError", "int() argument")

\* float(x) for a JSON value x.
float(x) ==
    CASE x.k = "num" -> Ok(PyFloat(x.v * 10))
      [] x.k = "float" -> Ok(x)
      [] x.k = "str" -> FloatLiteral(x.v)
      [] OTHER -> Raise("TypeError", "float() argument")

\* Whether a JSON value can be a dict key (a list or a dict cannot).
Hashable(x) == x.k \notin {"list", "obj"}

\* One pass of the loop over measures: metrics[metric_key] = metric_value.
\* A measure without 'metric' is stored under the key None.
SonarStoreMeasure(acc, measure) ==
    IF ~acc.ok THEN acc
    ELSE IF measure.k # "obj" THEN Raise("AttributeError", "get")
    ELSE LET metric_key == Get(measure.v, "metric", JNull)
             metric_value == Get(measure.v, "value", JStr("0"))
         IN IF ~Hashable(metric_key) THEN Raise("TypeError", "unhashable")
            ELSE Ok((metric_key :> metric_value) @@ acc.value)

RECURSIVE SonarMeasureLoop(_, _, _)
SonarMeasureLoop(acc, measures, i) ==
    IF i > Len(measures) THEN acc
    ELSE SonarMeasureLoop(SonarStoreMeasure(acc, measures[i]), measures, i + 1)

\* SonarComponentGet reading a null component as an empty one.
SonarComponentGet_NullAsEmpty(data, key, default) ==
    IF data.k # "obj" THEN Raise("AttributeError", "get")
    ELSE LET component == Get(data.v, "component", JObj(EmptyDict)) IN
         IF component.k = "null" THEN Ok(default)
         ELSE IF component.k # "obj" THEN Raise("AttributeError", "get")
         ELSE Ok(Get(component.v, key, default))

\* data.get('component', {}).get(key, default)
SonarComponentGet(data, key, default) ==
    IF data.k # "obj" THEN Raise("AttributeError", "get")
    ELSE LET component == Get(data.v, "component", JObj(EmptyDict)) IN
         IF component.k # "obj" THEN Raise("AttributeError", "get")
         ELSE Ok(Get(component.v, key, default))

SonarIntMetrics ==
    {"bugs", "vulnerabilities", "code_smells", "lines", "ncloc", "complexity",
     "security_hotspots"}
SonarFloatMetrics == {"coverage", "duplicated_lines_density"}
SonarRatingMetrics == {"sqale_rating", "reliability_rating", "security_rating"}
SonarMetrics == SonarIntMetrics \cup SonarFloatMetrics \cup SonarRatingMetrics

\* SonarMetricField with the first-written default of every kind, 0.
SonarMetricField_ZeroDefault(metrics, name) ==
    CASE name \in SonarIntMetrics -> int(Get(metrics, JStr(name), JNum(0)))
      [] name \in SonarFloatMetrics -> float(Get(metrics, JStr(name), PyFloat(0)))
      [] OTHER -> Ok(Get(metrics, JStr(name), JStr("0")))

\* The value of one field of parsed_data: int(metrics.get(name, 0)),
\* float(metrics.get(name, 0.0)) or metrics.get(name, 'A').
SonarMetricField(metrics, name) ==
    CASE name \in SonarIntMetrics -> int(Get(metrics, JStr(name), JNum(0)))
      [] name \in SonarFloatMetrics -> float(Get(metrics, JStr(name), PyFloat(0)))
      [] OTHER -> Ok(Get(metrics, JStr(name), JStr("A")))

\* The try block of parse_sonarqube_report on the loaded value.
SonarBody(data) ==
    LET got == SonarComponentGet(data, "measures", JList(<<>>)) IN
    IF ~got.ok THEN got
    ELSE LET measures == ItemsWithGet(got.value) IN
    IF ~measures.ok THEN measures
    ELSE LET acc == SonarMeasureLoop(Ok(EmptyDict), measures.value, 1) IN
         IF ~acc.ok THEN acc
         ELSE LET metrics == acc.value
                  field == [name \in SonarMetrics |-> SonarMetricField(metrics, name)]
              IN IF \E name \in SonarMetrics : ~field[name].ok
                 THEN field[CHOOSE name \in SonarMetrics : ~field[name].ok]
                 ELSE Ok([key \in SonarMetrics \cup {"project_key", "project_name", "raw_data"} |->
                            CASE key = "project_key" ->
                                   SonarComponentGet(data, "key", JStr("Unknown")).value
                              [] key = "project_name" ->
                                   SonarComponentGet(data, "name", JStr("Unknown")).value
                              [] key = "raw_data" -> data
                              [] OTHER -> field[key].value])

parse_sonarqube_report(c) ==
    LET loaded == json_loads(c) IN
    IF ~loaded.ok
    THEN Raise("ValueError", "Invalid JSON format in SonarQube report")
    ELSE LET r == SonarBody(loaded.value) IN
         IF r.ok THEN r
         ELSE Raise("ValueError", "Error parsing SonarQube report")

-----------------------------------------------------------------------------
(* Static-analysis uploads drawn by the model.                             *)

Measure(m, v) == JObj([metric |-> JStr(m), value |-> v])

SonarMeasures ==
    {Measure("bugs", JStr("5")), Measure("bugs", JStr("7")),
     Measure("bugs", JStr("5.0")), Measure("bugs", JNum(3)),
     Measure("vulnerabilities", JStr("3")), Measure("code_smells", JStr("12")),
     Measure("coverage", JStr("73.2")), Measure("coverage", JStr("80")),
     Measure("coverage", JStr("n/a")),
     Measure("duplicated_lines_density", JStr("5.0")),
     Measure("lines", JStr("80")), Measure("ncloc", JStr(" 5 ")),
     Measure("complexity", JStr("7")), Measure("security_hotspots", JStr("0")),
     Measure("sqale_rating", JStr("C")), Measure("reliability_rating", JStr("B")),
     Measure("security_rating", JStr("E")), Measure("alert_status", JStr("OK")),
     JObj([metric |-> JStr("bugs")]), JObj([metric |-> JStr("sqale_rating")]),
     JObj([value |-> JStr("5")]), JNull}

SonarComponents ==
    {JNull, JObj(EmptyDict), JObj([key |-> JStr("k"), name |-> JStr("n")]),
     JObj([measures |-> JNull]), JObj([measures |-> JObj(EmptyDict)]),
     JObj([measures |-> JStr("none")])}
    \cup {JObj([measures |-> JList(ms)]) : ms \in SeqUpTo(SonarMeasures, MaxItems)}
    \cup {JObj([key |-> JStr("k"), name |-> JStr("n"), measures |-> JList(ms)])
            : ms \in SeqUpTo(SonarMeasures, MaxItems)}

SonarData ==
    {JList(<<>>), JNum(42), JObj(EmptyDict), JObj([paging |-> JNum(1)])}
    \cup {JObj([component |-> comp]) : comp \in SonarComponents}

SonarContents == {GarbageText} \cup {JsonText(d) : d \in SonarData}

-----------------------------------------------------------------------------
(* _parse_sbom_json                                                        *)

SbomSeverityKeys == {"critical", "high", "medium", "low", "info", "unknown"}

\* sub in s, of two strings: of the strings of the model only 'license'
\* contains 'license'.
Contains(s, sub) == s = sub

\* SbomJsonVulnSeverity taking the last rating of the list, not the first.
SbomJsonVulnSeverity_LastRating(vuln) ==
    IF vuln.k # "obj" THEN Raise("AttributeError", "get")
    ELSE LET ratings == Get(vuln.v, "ratings", JList(<<>>)) IN
         IF ~Truthy(ratings) THEN Ok(None)
         ELSE IF ratings.k # "list" THEN Raise("TypeError", "ratings[0]")
         ELSE IF ratings.v[Len(ratings.v)].k # "obj" THEN Raise("AttributeError", "get")
         ELSE LET sev == Get(ratings.v[Len(ratings.v)].v, "severity", JStr("unknown")) IN
              IF sev.k # "str" THEN Raise("AttributeError", "lower")
              ELSE LET severity == Lower(sev.v) IN
                   Ok(IF severity \in SbomSeverityKeys THEN severity ELSE "unknown")

\* The body of the loop over vulnerabilities, for one vulnerability: the key
\* it increments.  Only a vulnerability with a non-empty ratings list counts,
\* under the severity of its first rating; None when it increments no key.
SbomJsonVulnSeverity(vuln) ==
    IF vuln.k # "obj" THEN Raise("AttributeError", "get")
    ELSE LET ratings == Get(vuln.v, "ratings", JList(<<>>)) IN
         IF ~Truthy(ratings) THEN Ok(None)
         ELSE IF ratings.k # "list" THEN Raise("TypeError", "ratings[0]")
         ELSE IF ratings.v[1].k # "obj" THEN Raise("AttributeError", "get")
         ELSE LET sev == Get(ratings.v[1].v, "severity", JStr("unknown")) IN
              IF sev.k # "str" THEN Raise("AttributeError", "lower")
              ELSE LET severity == Lower(sev.v) IN
                   Ok(IF severity \in SbomSeverityKeys THEN severity ELSE "unknown")

\* The first exception a loop raises: outcomes[i] is the outcome of pass i.
FirstRaised(outcomes) ==
    outcomes[CHOOSE i \in DOMAIN outcomes :
                ~outcomes[i].ok /\ \A j \in 1..(i - 1) : outcomes[j].ok]

\* The loop over vulnerabilities: every counter starts at 0 and each pass
\* adds one to the key of its vulnerability.
SbomJsonCountVulns(vulns) ==
    LET outcome(i) == SbomJsonVulnSeverity(vulns[i]) IN
    IF \E i \in DOMAIN vulns : ~outcome(i).ok THEN FirstRaised([i \in DOMAIN vulns |-> outcome(i)])
    ELSE Ok([key \in SbomSeverityKeys |->
                Cardinality({i \in DOMAIN vulns : outcome(i).value = key})])

\* The body of the loop over a component's licenses, for one entry: the name
\* it adds (license.name, or license.id when the name is missing or empty),
\* None when it adds none.
SbomJsonLicenseName(license_info) ==
    IF license_info.k \in {"null", "num"} THEN Raise("TypeError", "in")
    ELSE IF license_info.k = "str"
    THEN IF Contains(license_info.v, "license")
         THEN Raise("TypeError", "string indices") ELSE Ok(JNull)
    ELSE IF license_info.k = "list"
    THEN IF \E i \in DOMAIN license_info.v : license_info.v[i] = JStr("license")
         THEN Raise("TypeError", "list indices") ELSE Ok(JNull)
    ELSE IF "license" \notin DOMAIN license_info.v THEN Ok(JNull)
    ELSE LET license == license_info.v["license"] IN
         IF license.k # "obj" THEN Raise("AttributeError", "get")
         ELSE LET name == Get(license.v, "name", JNull)
                  license_name == IF Truthy(name) THEN name
                                  ELSE Get(license.v, "id", JNull)
              IN IF ~Truthy(license_name) THEN Ok(JNull)
                 ELSE IF ~Hashable(license_name) THEN Raise("TypeError", "unhashable")
                 ELSE Ok(license_name)

\* The body of the loop over components, for one component: its type, counted
\* in by_type, and the license names it adds.
SbomJsonComponent(component) ==
    IF component.k # "obj" THEN Raise("AttributeError", "get")
    ELSE LET comp_type == Get(component.v, "type", JStr("unknown")) IN
         IF ~Hashable(comp_type) THEN Raise("TypeError", "unhashable")
         ELSE LET licenses == Get(component.v, "licenses", JList(<<>>)) IN
              IF licenses.k \in {"null", "num"}
              THEN Raise("TypeError", "not iterable")
              ELSE IF licenses.k = "str" THEN Ok([type |-> comp_type, licenses |-> {}])
              ELSE IF licenses.k = "obj"
              THEN IF \E key \in DOMAIN licenses.v : Contains(key, "license")
                   THEN Raise("TypeError", "string indices")
                   ELSE Ok([type |-> comp_type, licenses |-> {}])
              ELSE LET outcome(i) == SbomJsonLicenseName(licenses.v[i]) IN
                   IF \E i \in DOMAIN licenses.v : ~outcome(i).ok
                   THEN FirstRaised([i \in DOMAIN licenses.v |-> outcome(i)])
                   ELSE Ok([type |-> comp_type,
                            licenses |-> {outcome(i).value : i \in DOMAIN licenses.v}
                                             \ {JNull}])

\* The loop over components: by_type counts every component under its type,
\* licenses collects the names.
SbomJsonSummary(components) ==
    LET outcome(i) == SbomJsonComponent(components[i]) IN
    IF \E i \in DOMAIN components : ~outcome(i).ok
    THEN FirstRaised([i \in DOMAIN components |-> outcome(i)])
    ELSE Ok([by_type |->
                [t \in {outcome(i).value.type : i \in DOMAIN components} |->
                    Cardinality({i \in DOMAIN components : outcome(i).value.type = t})],
             licenses |-> UNION {outcome(i).value.licenses : i \in DOMAIN components}])

_parse_sbom_json(data) ==
    IF data.k # "obj" THEN Raise("AttributeError", "get")
    ELSE LET components == ItemsWithGet(Get(data.v, "components", JList(<<>>)))
             vulnerabilities == ItemsWithGet(Get(data.v, "vulnerabilities", JList(<<>>)))
         IN IF ~vulnerabilities.ok THEN vulnerabilities
            ELSE LET severity_counts == SbomJsonCountVulns(vulnerabilities.value)
                 IN IF ~severity_counts.ok THEN severity_counts
                    ELSE IF ~components.ok THEN components
                    ELSE LET summary == SbomJsonSummary(components.value)
                         IN IF ~summary.ok THEN summary
                            ELSE Ok([bom_format |->
                                         Get(data.v, "bomFormat", JStr("CycloneDX")),
                                     spec_version |->
                                         Get(data.v, "specVersion", JStr("Unknown")),
                                     metadata |->
                                         Get(data.v, "metadata", JObj(EmptyDict)),
                                     components |->
                                         [total |-> Len(components.value),
                                          by_type |-> summary.value.by_type,
                                          licenses |-> summary.value.licenses],
                                     vulnerabilities |->
                                         [total |-> Len(vulnerabilities.value),
                                          by_severity |-> severity_counts.value],
                                     raw_data |-> data])

-----------------------------------------------------------------------------
(* XML text and xml.etree.ElementTree                                      *)

\* An element as written: prefix is the namespace URI its prefix is bound to
\* ("" for an element written without prefix), attrib its attributes, text its
\* text (None when it has none), children its child elements in order.
SrcElem(prefix, local, attrib, text, children) ==
    [prefix |-> prefix, local |-> local, attrib |-> attrib, text |-> text,
     children |-> children]

\* An XML text: the root element and the default namespace its xmlns
\* attribute declares ("" when it declares none).
XmlText(xmlns, root) == [syntax |-> "xml", xmlns |-> xmlns, root |-> root]

NoAttrib == [x \in {} |-> ""]

\* The parsed element: its tag carries the namespace the parser resolved, the
\* prefix's URI or else the default namespace of the document.
RECURSIVE Resolve(_, _)
Resolve(e, xmlns) ==
    [tag |-> [ns |-> IF e.prefix # "" THEN e.prefix ELSE xmlns, local |-> e.local],
     attrib |-> e.attrib,
     text |-> e.text,
     children |-> [i \in DOMAIN e.children |-> Resolve(e.children[i], xmlns)]]

\* ET.fromstring(content): the root element, ParseError for text that is not
\* well-formed XML.
ET_fromstring(c) ==
    IF c.syntax = "xml" THEN Ok(Resolve(c.root, c.xmlns)) ELSE Raise("ParseError", "")

\* Concatenation of the sequences ss[lo], ..., ss[hi].
RECURSIVE FlattenRange(_, _, _)
FlattenRange(ss, lo, hi) ==
    IF lo > hi THEN <<>>
    ELSE IF lo = hi THEN ss[lo]
    ELSE LET mid == (lo + hi) \div 2
         IN FlattenRange(ss, lo, mid) \o FlattenRange(ss, mid + 1, hi)

Flatten(ss) == FlattenRange(ss, 1, Len(ss))

\* elem.iter(): the element and all its descendants in document order.
RECURSIVE Iter(_)
Iter(e) == <<e>> \o Flatten([i \in DOMAIN e.children |-> Iter(e.children[i])])

\* elem.findall('.//bom:local', {'bom': ns}), and with ns = "" the
\* unqualified elem.findall('.//local'): the descendants of that very tag.
FindAll(e, ns, local) ==
    SelectSeq(Tail(Iter(e)), LAMBDA d : d.tag = [ns |-> ns, local |-> local])

\* elem.find('bom:local', {'bom': ns}), and with ns = "" elem.find('local'):
\* the first child of that tag, or None.
NoElem == [tag |-> [ns |-> "", local |-> None]]
FirstOf(seq) == IF seq = <<>> THEN NoElem ELSE seq[1]
FindChild(e, ns, local) ==
    FirstOf(SelectSeq(e.children, LAMBDA d : d.tag = [ns |-> ns, local |-> local]))

\* tag.endswith(suffix) on the names the model draws.  A tag is '{ns}local' or
\* 'local', and no suffix asked for holds a brace, so only local decides.
EndsWith(tag, suffix) ==
    \/ tag.local = suffix
    \/ <<tag.local, suffix>> \in {<<"subcomponent", "component">>,
                                  <<"xvulnerability", "vulnerability">>,
                                  <<"filename", "name">>}

-----------------------------------------------------------------------------
(* _parse_sbom_xml                                                         *)

\* namespace_uris, in the order they are probed
namespace_uris ==
    <<"http://cyclonedx.org/schema/bom/1.6", "http://cyclonedx.org/schema/bom/1.5",
      "http://cyclonedx.org/schema/bom/1.4", "http://cyclonedx.org/schema/bom/1.3">>

\* components[:100] and vulnerabilities[:50]
ComponentCap == 100
VulnerabilityCap == 50

\* seq[:n]
\* Prefix cutting nothing: the loop running over the whole list.
Prefix_Uncut(seq, n) == seq

\* seq[:n]
Prefix(seq, n) == SubSeq(seq, 1, IF Len(seq) < n THEN Len(seq) ELSE n)

\* The namespace the queries use: the one of the root tag, else the first of
\* namespace_uris under which a component is found, else none ("").
RECURSIVE ProbeNamespace(_, _)
ProbeNamespace(root, i) ==
    IF i > Len(namespace_uris) THEN ""
    ELSE IF FindAll(root, namespace_uris[i], "component") # <<>>
         THEN namespace_uris[i]
         ELSE ProbeNamespace(root, i + 1)

DetectNamespace(root) ==
    IF root.tag.ns # "" THEN root.tag.ns ELSE ProbeNamespace(root, 1)

\* FindElements without the unqualified query: the namespaced query, else
\* every element whose tag ends with the name.
FindElements_NoUnqualified(root, ns, local) ==
    LET namespaced == IF ns # "" THEN FindAll(root, ns, local) ELSE <<>>
    IN IF namespaced # <<>> THEN namespaced
       ELSE SelectSeq(Iter(root), LAMBDA d : EndsWith(d.tag, local))

\* The elements found for 'component' or 'vulnerability': the namespaced query
\* when a namespace is known, else the unqualified query, else every element
\* whose tag ends with the name.
FindElements(root, ns, local) ==
    LET namespaced == IF ns # "" THEN FindAll(root, ns, local) ELSE <<>>
        unqualified == IF namespaced # <<>> THEN namespaced
                       ELSE FindAll(root, "", local)
    IN IF unqualified # <<>> THEN unqualified
       ELSE SelectSeq(Iter(root), LAMBDA d : EndsWith(d.tag, local))

\* The element a detail field is read from: the namespaced child, else the
\* unqualified child, else the first child whose tag ends with the field name.
FindField(component, ns, field) ==
    LET namespaced == IF ns # "" THEN FindChild(component, ns, field) ELSE NoElem
        unqualified == IF namespaced # NoElem THEN namespaced
                       ELSE FindChild(component, "", field)
    IN IF unqualified # NoElem THEN unqualified
       ELSE FirstOf(SelectSeq(component.children, LAMBDA d : EndsWith(d.tag, field)))

\* The descendants of the given name used for licenses, hashes and ratings:
\* the namespaced ones when a namespace is known and any exist, else the
\* unqualified ones.
FindNested(e, ns, local) ==
    LET namespaced == IF ns # "" THEN FindAll(e, ns, local) ELSE <<>>
    IN IF namespaced # <<>> THEN namespaced ELSE FindAll(e, "", local)

\* The name of a license element: the text of its name child, else of its id
\* child (namespaced child first, then unqualified), None when neither has text.
LicenseField(license_elem, ns, field) ==
    LET namespaced == IF ns # "" THEN FindChild(license_elem, ns, field) ELSE NoElem
    IN IF namespaced # NoElem THEN namespaced ELSE FindChild(license_elem, "", field)

HasText(e) == e # NoElem /\ e.text # None /\ e.text # ""

LicenseName(license_elem, ns) ==
    IF HasText(LicenseField(license_elem, ns, "name"))
    THEN LicenseField(license_elem, ns, "name").text
    ELSE IF HasText(LicenseField(license_elem, ns, "id"))
         THEN LicenseField(license_elem, ns, "id").text
         ELSE None

DetailFields == {"name", "version", "group", "author", "description"}

\* comp_details of one component.
ComponentDetails(component, ns) ==
    [key \in DetailFields \cup {"type", "hashes"} |->
        CASE key = "type" -> Get(component.attrib, "type", "library")
          [] key = "hashes" ->
               LET hash_elements == FindNested(component, ns, "hash") IN
               [i \in DOMAIN hash_elements |->
                   [algorithm |-> Get(hash_elements[i].attrib, "alg", "unknown"),
                    value |-> IF hash_elements[i].text \notin {None, ""}
                              THEN hash_elements[i].text ELSE "unknown"]]
          [] OTHER ->
               IF FindField(component, ns, key) # NoElem
               THEN FindField(component, ns, key).text ELSE "Unknown"]

\* The license names one component adds.
ComponentLicenses(component, ns) ==
    LET license_elements == FindNested(component, ns, "license") IN
    {LicenseName(license_elements[i], ns) : i \in DOMAIN license_elements} \ {None}

\* The loop over components[:100]: by_type counts each of them under its
\* type attribute, licenses collects their license names, details holds one
\* entry for each.
XmlComponentSummary(components, ns) ==
    LET comp_type(i) == Get(components[i].attrib, "type", "library") IN
    [by_type |-> [t \in {comp_type(i) : i \in DOMAIN components} |->
                     Cardinality({i \in DOMAIN components : comp_type(i) = t})],
     licenses |-> UNION {ComponentLicenses(components[i], ns) : i \in DOMAIN components},
     details |-> [i \in DOMAIN components |-> ComponentDetails(components[i], ns)]]

\* The severity element of a rating: namespaced child, else unqualified.
RatingSeverity(rating, ns) ==
    LET namespaced == IF ns # "" THEN FindChild(rating, ns, "severity") ELSE NoElem
    IN IF namespaced # NoElem THEN namespaced ELSE FindChild(rating, "", "severity")

\* The first rating of the list, from position i on, that has a severity with
\* text; 0 when there is none.
RECURSIVE FirstRated(_, _, _)
FirstRated(rating_elements, ns, i) ==
    IF i > Len(rating_elements) THEN 0
    ELSE IF HasText(RatingSeverity(rating_elements[i], ns)) THEN i
         ELSE FirstRated(rating_elements, ns, i + 1)

\* The body of the loop over vulnerabilities[:50], for one vulnerability: the
\* key it increments, that of the first of its ratings that has a severity;
\* None when no rating has one.
XmlVulnSeverity(vuln, ns) ==
    LET rating_elements == FindNested(vuln, ns, "rating")
        rated == FirstRated(rating_elements, ns, 1)
    IN IF rated = 0 THEN None
       ELSE LET severity == Lower(RatingSeverity(rating_elements[rated], ns).text)
            IN IF severity \in SbomSeverityKeys THEN severity ELSE "unknown"

\* vuln_data of one vulnerability.
XmlVulnData(vuln, ns) ==
    LET vuln_data == [id |-> Get(vuln.attrib, "id", "Unknown"),
                      source |-> Get(vuln.attrib, "source", "Unknown")]
    IN IF XmlVulnSeverity(vuln, ns) = None THEN vuln_data
       ELSE vuln_data @@ [severity |-> XmlVulnSeverity(vuln, ns)]

\* The loop over vulnerabilities[:50]: severity counters and details.
XmlVulnSummary(vulnerabilities, ns) ==
    [counts |-> [key \in SbomSeverityKeys |->
                    Cardinality({i \in DOMAIN vulnerabilities :
                                    XmlVulnSeverity(vulnerabilities[i], ns) = key})],
     details |-> [i \in DOMAIN vulnerabilities |-> XmlVulnData(vulnerabilities[i], ns)]]

NoMetadata == [x \in {} |-> ""]

_parse_sbom_xml(c) ==
    LET parsed == ET_fromstring(c) IN
    IF ~parsed.ok THEN Raise("ValueError", "Invalid XML format in SBOM report")
    ELSE LET root == parsed.value
             ns == DetectNamespace(root)
             timestamp_elem == IF ns # "" THEN FirstOf(FindAll(root, ns, "timestamp"))
                               ELSE NoElem
             components == FindElements(root, ns, "component")
             summary == XmlComponentSummary(Prefix(components, ComponentCap), ns)
             vulnerabilities == FindElements(root, ns, "vulnerability")
             counted == XmlVulnSummary(Prefix(vulnerabilities, VulnerabilityCap), ns)
         IN Ok([bom_format |-> "CycloneDX",
                spec_version |-> Get(root.attrib, "version", "Unknown"),
                metadata |-> IF timestamp_elem # NoElem
                             THEN [timestamp |-> timestamp_elem.text]
                             ELSE NoMetadata,
                components |-> [total |-> Len(components),
                                by_type |-> summary.by_type,
                                licenses |-> summary.licenses,
                                details |-> summary.details],
                vulnerabilities |-> [total |-> Len(vulnerabilities),
                                     by_severity |-> counted.counts,
                                     details |-> counted.details],
                raw_data |-> c])

\* parse_sbom_report without the XML parse: text that is no JSON raises.
parse_sbom_report_JsonOnly(c) ==
    LET loaded == json_loads(c)
        r == IF loaded.ok THEN _parse_sbom_json(loaded.value)
             ELSE Raise("JSONDecodeError", "")
    IN IF r.ok THEN r ELSE Raise("ValueError", "Error parsing SBOM report")

\* parse_sbom_report: the JSON parse first, the XML parse when json.loads
\* raises JSONDecodeError; any other exception becomes a ValueError.
parse_sbom_report(c) ==
    LET loaded == json_loads(c)
        r == IF loaded.ok THEN _parse_sbom_json(loaded.value) ELSE _parse_sbom_xml(c)
    IN IF r.ok THEN r ELSE Raise("ValueError", "Error parsing SBOM report")

\* parse_sbom_report given the raw_data of a stored report, as
\* reprocess_sbom_reports calls it: the raw_data of a report from XML is the
\* text; that of a report from JSON is the loaded dict, for which json.loads
\* raises a TypeError: no JSONDecodeError, so the XML parse is not tried and
\* the outer except makes it a ValueError.
ParseRawData(raw_data) ==
    IF "syntax" \in DOMAIN raw_data THEN parse_sbom_report(raw_data)
    ELSE Raise("ValueError", "Error parsing SBOM report")

-----------------------------------------------------------------------------
(* SBOM uploads drawn by the model: JSON.                                  *)

JRating(sev) == JObj([severity |-> sev])

SbomJsonVulns ==
    {JObj([id |-> JStr("CVE-1")]),
     JObj([ratings |-> JList(<<>>)]),
     JObj([ratings |-> JNull]),
     JObj([ratings |-> JList(<<JRating(JStr("High"))>>)]),
     JObj([ratings |-> JList(<<JRating(JStr("low")), JRating(JStr("critical"))>>)]),
     JObj([ratings |-> JList(<<JObj([method |-> JStr("CVSSv3")])>>)]),
     JObj([ratings |-> JList(<<JRating(JStr("bogus"))>>)]),
     JObj([ratings |-> JList(<<JRating(JNull)>>)])}

JLicense(field, text) == JObj([license |-> JObj((field :> JStr(text)))])

SbomJsonComponents ==
    {JObj([name |-> JStr("a")]),
     JObj([type |-> JStr("library"), licenses |-> JList(<<JLicense("id", "MIT")>>)]),
     JObj([type |-> JStr("application"),
           licenses |-> JList(<<JLicense("name", "Apache-2.0"),
                                JObj([expression |-> JStr("MIT OR X11")])>>)]),
     JObj([type |-> JStr("library"), licenses |-> JNull]),
     JObj([type |-> JStr("library"), licenses |-> JStr("MIT")]),
     JObj([type |-> JStr("library"), licenses |-> JList(<<JStr("license")>>)])}

SbomJsonHeader ==
    [bomFormat |-> JStr("CycloneDX"), specVersion |-> JStr("1.5"),
     metadata |-> JObj([timestamp |-> JStr("2024")])]

\* n copies of x
Repeat(x, n) == [i \in 1..n |-> x]

SbomJsonBodies ==
    {EmptyDict, [components |-> JNull], [vulnerabilities |-> JNull],
     [components |-> JObj(EmptyDict)], [components |-> JStr("library")],
     [vulnerabilities |-> JStr("")], [vulnerabilities |-> JNum(1)]}
    \cup {[components |-> JList(cs)] : cs \in SeqUpTo(SbomJsonComponents, MaxItems)}
    \cup {[vulnerabilities |-> JList(vs)] : vs \in SeqUpTo(SbomJsonVulns, MaxItems)}
    \cup {[components |-> JList(cs), vulnerabilities |-> JList(vs)]
            : cs \in SeqUpTo(SbomJsonComponents, 1), vs \in SeqUpTo(SbomJsonVulns, 1)}
    \cup {[components |-> JList(Repeat(JObj([type |-> JStr("library")]), n)),
           vulnerabilities |-> JList(Repeat(JObj([ratings |->
                                   JList(<<JRating(JStr("HIGH"))>>)]), m))]
            : n \in {ComponentCap + d : d \in 0..MaxOver},
              m \in {VulnerabilityCap + d : d \in 0..MaxOver}}

SbomJsonData ==
    {JList(<<>>), JNum(42), JNull, JStr("<bom/>")}
    \cup {JObj(body) : body \in SbomJsonBodies}
    \cup {JObj(body @@ SbomJsonHeader) : body \in SbomJsonBodies}

-----------------------------------------------------------------------------
(* SBOM uploads drawn by the model: XML.                                   *)

\* A CycloneDX namespace that namespace_uris does not list, and the namespace
\* of the CycloneDX vulnerability extension.
Ns_1_2 == "http://cyclonedx.org/schema/bom/1.2"
NsVulnExt == "http://cyclonedx.org/schema/ext/vulnerability/1.0"

Leaf(prefix, local, text) == SrcElem(prefix, local, NoAttrib, text, <<>>)

XmlComponents ==
    {SrcElem("", "component", NoAttrib, None, <<>>),
     SrcElem("", "component", [type |-> "application"], None,
             <<Leaf("", "filename", "a.jar"), Leaf("", "name", "libA"),
               Leaf("", "version", "1.0"),
               SrcElem("", "licenses", NoAttrib, None,
                       <<SrcElem("", "license", NoAttrib, None,
                                 <<Leaf("", "id", "MIT")>>)>>),
               SrcElem("", "hashes", NoAttrib, None,
                       <<SrcElem("", "hash", [alg |-> "SHA-1"], "abc", <<>>)>>)>>),
     SrcElem(namespace_uris[2], "component", [type |-> "framework"], None,
             <<Leaf(namespace_uris[2], "filename", "b.jar"),
               Leaf(namespace_uris[2], "name", "libB")>>),
     SrcElem(namespace_uris[4], "component", [type |-> "library"], None,
             <<Leaf("", "name", "libC")>>),
     SrcElem("", "subcomponent", NoAttrib, None, <<>>),
     SrcElem("", "components", NoAttrib, None,
             <<SrcElem("", "component", [type |-> "container"], None,
                       <<Leaf("", "name", "img")>>)>>),
     SrcElem("", "metadata", NoAttrib, None, <<Leaf("", "timestamp", "2024")>>)}

XmlRating(prefix, sev) ==
    SrcElem(prefix, "rating", NoAttrib, None,
            IF sev = None THEN <<>> ELSE <<Leaf(prefix, "severity", sev)>>)

XmlVuln(prefix, local, attrib, ratings) ==
    SrcElem(prefix, local, attrib, None,
            IF ratings = <<>> THEN <<>>
            ELSE <<SrcElem(prefix, "ratings", NoAttrib, None, ratings)>>)

XmlVulns ==
    {XmlVuln("", "vulnerability", [id |-> "CVE-1", source |-> "NVD"], <<>>),
     XmlVuln("", "vulnerability", NoAttrib, <<XmlRating("", "HIGH")>>),
     XmlVuln("", "vulnerability", NoAttrib,
             <<XmlRating("", None), XmlRating("", "bogus")>>),
     XmlVuln("", "vulnerability", NoAttrib,
             <<XmlRating("", "low"), XmlRating("", "critical")>>),
     XmlVuln(NsVulnExt, "vulnerability", [id |-> "CVE-2"],
             <<XmlRating(NsVulnExt, "Medium")>>),
     XmlVuln("", "xvulnerability", NoAttrib, <<>>)}

XmlRootAttribs == {NoAttrib, [version |-> "1"]}
XmlDeclared == {"", namespace_uris[2], Ns_1_2}

XmlBom(xmlns, attrib, children) ==
    XmlText(xmlns, SrcElem("", "bom", attrib, None, children))

\* Documents at and around the two caps: many equal components or
\* vulnerabilities, then possibly one of another kind.
XmlBulkChildren ==
    {Repeat(SrcElem("", "component", NoAttrib, None, <<>>), n) \o tail
        : n \in {ComponentCap - 1 + d : d \in 0..(MaxOver + 1)},
          tail \in {<<>>, <<SrcElem("", "component", [type |-> "application"],
                                    None, <<>>)>>}}
    \cup {Repeat(XmlVuln("", "vulnerability", NoAttrib, <<XmlRating("", "HIGH")>>), n)
            \o tail
        : n \in {VulnerabilityCap - 1 + d : d \in 0..(MaxOver + 1)},
          tail \in {<<>>, <<XmlVuln("", "vulnerability", NoAttrib,
                                    <<XmlRating("", "low")>>)>>}}

SbomXmlTexts ==
    {XmlBom(xmlns, attrib, children)
        : xmlns \in XmlDeclared, attrib \in XmlRootAttribs,
          children \in SeqUpTo(XmlComponents \cup XmlVulns, MaxElems)}
    \cup {XmlBom(xmlns, NoAttrib, children)
            : xmlns \in {"", namespace_uris[2]}, children \in XmlBulkChildren}

SbomContents == {GarbageText} \cup {JsonText(d) : d \in SbomJsonData} \cup SbomXmlTexts

-----------------------------------------------------------------------------
(* SonarQubeClient (src/utils/sonarqube_client.py): what each method makes *)
(* of the response the server gives to its request.                        *)

\* A response of the server, and a request that gets none (timeout, refused
\* connection): session.get raises a RequestException.
Http(status, body) == [net |-> "ok", status |-> status, body |-> body]
ConnectionError == [net |-> "error"]

\* A response body that is no JSON.
NotJson == [k |-> "notjson"]

\* The endpoints.
StatusEndpoint == "/api/system/status"
MeasuresEndpoint == "/api/measures/component"
ProjectsEndpoint == "/api/projects/search"
IssuesEndpoint == "/api/issues/search"
HotspotsEndpoint == "/api/hotspots/search"
DataEndpoints == {MeasuresEndpoint, ProjectsEndpoint, IssuesEndpoint, HotspotsEndpoint}

\* session.get(...), response.raise_for_status(), response.json(): the JSON
\* value of a successful response; a RequestException for no response, for a
\* 4xx or 5xx status (HTTPError) and for a body that is no JSON.
ResponseJson(r) ==
    IF r.net = "error" THEN Raise("RequestException", "ConnectionError")
    ELSE IF r.status >= 400 THEN Raise("RequestException", "HTTPError")
    ELSE IF r.body = NotJson THEN Raise("RequestException", "JSONDecodeError")
    ELSE Ok(r.body)

\* test_connection: True when the status endpoint answers {'status': 'UP'};
\* every exception gives False.
test_connection(r) ==
    LET data == ResponseJson(r) IN
    /\ data.ok
    /\ data.value.k = "obj"
    /\ Get(data.value.v, "status", JNull) = JStr("UP")

\* get_project_measures up to the call of _get_project_info: the status
\* checks, the JSON body and the loop over the measures; metrics_dict and the
\* component, or the exception raised.
MeasuresResponse(r) ==
    IF r.net = "error"
    THEN Raise("Exception", "Failed to fetch SonarQube metrics")
    ELSE IF r.status = 403 THEN Raise("Exception", "Access denied to SonarQube project")
    ELSE IF r.status = 404 THEN Raise("Exception", "Project not found in SonarQube")
    ELSE IF r.status = 401 THEN Raise("Exception", "Authentication failed")
    ELSE LET data == ResponseJson(r) IN
         IF ~data.ok THEN Raise("Exception", "Failed to fetch SonarQube metrics")
         ELSE IF data.value.k # "obj" THEN Raise("AttributeError", "get")
         ELSE LET component == Get(data.value.v, "component", JObj(EmptyDict)) IN
              IF component.k # "obj" THEN Raise("AttributeError", "get")
              ELSE LET measures == ItemsWithGet(Get(component.v, "measures", JList(<<>>))) IN
                   IF ~measures.ok THEN measures
                   ELSE LET acc == SonarMeasureLoop(Ok(EmptyDict), measures.value, 1) IN
                        IF ~acc.ok THEN acc
                        ELSE Ok([data |-> data.value, component |-> component.v,
                                 metrics_dict |-> acc.value])

\* _get_project_info: the first of the components the projects search
\* returns, {} when it returns none or the request fails.
_get_project_info(r) ==
    LET data == ResponseJson(r) IN
    IF ~data.ok THEN Ok(JObj(EmptyDict))
    ELSE IF data.value.k # "obj" THEN Raise("AttributeError", "get")
    ELSE LET components == Get(data.value.v, "components", JList(<<>>)) IN
         IF ~Truthy(components) THEN Ok(JObj(EmptyDict))
         ELSE IF components.k # "list" THEN Raise("TypeError", "components[0]")
         ELSE Ok(components.v[1])

ClientIntMetrics == SonarIntMetrics \cup {"new_bugs", "new_vulnerabilities", "new_code_smells"}
ClientTextMetrics == SonarRatingMetrics \cup {"quality_gate_status", "technical_debt"}
ClientMetrics == ClientIntMetrics \cup SonarFloatMetrics \cup ClientTextMetrics

\* ClientMetricField with another default for the ratings.
ClientMetricField_RatingDefaultE(metrics_dict, name) ==
    CASE name \in ClientIntMetrics -> int(Get(metrics_dict, JStr(name), JNum(0)))
      [] name \in SonarFloatMetrics -> float(Get(metrics_dict, JStr(name), PyFloat(0)))
      [] name = "quality_gate_status" -> Ok(Get(metrics_dict, JStr(name), JStr("OK")))
      [] name = "technical_debt" -> Ok(Get(metrics_dict, JStr(name), JStr("0min")))
      [] OTHER -> Ok(Get(metrics_dict, JStr(name), JStr("E")))

\* One metric field of the dictionary get_project_measures returns.
ClientMetricField(metrics_dict, name) ==
    CASE name \in ClientIntMetrics -> int(Get(metrics_dict, JStr(name), JNum(0)))
      [] name \in SonarFloatMetrics -> float(Get(metrics_dict, JStr(name), PyFloat(0)))
      [] name = "quality_gate_status" -> Ok(Get(metrics_dict, JStr(name), JStr("OK")))
      [] name = "technical_debt" -> Ok(Get(metrics_dict, JStr(name), JStr("0min")))
      [] OTHER -> Ok(Get(metrics_dict, JStr(name), JStr("A")))

\* The dictionary get_project_measures returns, from the measures it read and
\* the project info.
MeasuresReport(read, project_info, project_key) ==
    IF project_info.k # "obj" THEN Raise("AttributeError", "get")
    ELSE LET field == [name \in ClientMetrics |->
                          ClientMetricField(read.metrics_dict, name)]
         IN IF \E name \in ClientMetrics : ~field[name].ok
            THEN Raise("ValueError", "invalid literal")
            ELSE Ok([key \in ClientMetrics \cup {"project_key", "project_name",
                                                 "project_description", "last_analysis",
                                                 "raw_metrics"} |->
                      CASE key = "project_key" ->
                             Get(read.component, "key", JStr(project_key))
                        [] key = "project_name" ->
                             Get(read.component, "name",
                                 Get(project_info.v, "name", JStr("Unknown")))
                        [] key = "project_description" ->
                             Get(project_info.v, "description", JStr(""))
                        [] key = "last_analysis" ->
                             Get(project_info.v, "lastAnalysisDate", JNull)
                        [] key = "raw_metrics" -> read.metrics_dict
                        [] OTHER -> field[key].value])

\* parsed_issue and parsed_hotspot: each key with the field it is read from.
IssueFields ==
    [key |-> "key", rule |-> "rule", severity |-> "severity",
     component |-> "component", project |-> "project", line |-> "line",
     message |-> "message", author |-> "author", creation_date |-> "creationDate",
     update_date |-> "updateDate", type |-> "type", status |-> "status",
     effort |-> "effort", tags |-> "tags"]
HotspotFields ==
    [key |-> "key", component |-> "component", project |-> "project",
     rule |-> "rule", status |-> "status", line |-> "line", message |-> "message",
     author |-> "author", creation_date |-> "creationDate",
     update_date |-> "updateDate",
     vulnerability_probability |-> "vulnerabilityProbability"]

\* get_project_issues and get_security_hotspots: the entries of the list
\* under listKey, each reduced to the given fields (None for a missing one;
\* the tags of an issue default to []).
SearchResponse(r, what, listKey, fields) ==
    LET data == ResponseJson(r) IN
    IF ~data.ok THEN Raise("Exception", "Failed to fetch SonarQube " \o what)
    ELSE IF data.value.k # "obj" THEN Raise("AttributeError", "get")
    ELSE LET entries == ItemsWithGet(Get(data.value.v, listKey, JList(<<>>))) IN
         IF ~entries.ok THEN entries
         ELSE IF \E i \in DOMAIN entries.value : entries.value[i].k # "obj"
         THEN Raise("AttributeError", "get")
         ELSE Ok([i \in DOMAIN entries.value |->
                     [key \in DOMAIN fields |->
                         Get(entries.value[i].v, fields[key],
                             IF key = "tags" THEN JList(<<>>) ELSE JNull)]])

get_project_issues(r) == SearchResponse(r, "issues", "issues", IssueFields)
get_security_hotspots(r) == SearchResponse(r, "hotspots", "hotspots", HotspotFields)

-----------------------------------------------------------------------------
(* Server responses drawn by the model.                                    *)

FailureStatuses == {401, 403, 404, 500}

StatusResponses ==
    {ConnectionError, Http(503, JObj([status |-> JStr("UP")])), Http(401, NotJson),
     Http(200, NotJson), Http(200, JList(<<>>)), Http(200, JObj(EmptyDict)),
     Http(200, JObj([status |-> JStr("DOWN")])),
     Http(200, JObj([status |-> JStr("STARTING")])),
     Http(200, JObj([status |-> JStr("UP")]))}

FetchMeasures ==
    {Measure("bugs", JStr("5")), Measure("bugs", JStr("5.0")),
     Measure("coverage", JStr("73.2")), Measure("sqale_rating", JStr("C")),
     Measure("new_bugs", JStr("3")), JObj([metric |-> JStr("vulnerabilities")]), JNull}

FetchComponents ==
    {JNull, JObj(EmptyDict), JObj([key |-> JStr("k")]), JObj([measures |-> JNull])}
    \cup {JObj([measures |-> JList(ms)]) : ms \in SeqUpTo(FetchMeasures, 1)}
    \cup {JObj([key |-> JStr("k"), name |-> JStr("n"), measures |-> JList(ms)])
            : ms \in SeqUpTo(FetchMeasures, MaxItems)}

MeasuresResponses ==
    {ConnectionError, Http(200, NotJson), Http(200, JList(<<>>)),
     Http(200, JObj(EmptyDict))}
    \cup {Http(status, NotJson) : status \in FailureStatuses}
    \cup {Http(200, JObj([component |-> c])) : c \in FetchComponents}

ProjectsResponses ==
    {ConnectionError, Http(403, NotJson), Http(200, JList(<<>>)),
     Http(200, JObj(EmptyDict)),
     Http(200, JObj([components |-> JList(<<JStr("k")>>)])),
     Http(200, JObj([components |-> JList(<<JObj([key |-> JStr("k")])>>)])),
     Http(200, JObj([components |-> JList(<<JObj([name |-> JStr("Project"),
                                                  description |-> JStr("d")])>>)]))}

SearchResponses(listKey) ==
    {ConnectionError, Http(200, NotJson), Http(200, JList(<<>>)),
     Http(200, JObj(EmptyDict)), Http(200, JObj((listKey :> JNull))),
     Http(200, JObj((listKey :> JList(<<JNull>>)))),
     Http(200, JObj((listKey :> JList(<<JObj([key |-> JStr("i1"),
                                             status |-> JStr("OPEN")])>>))))}
    \cup {Http(status, NotJson) : status \in FailureStatuses}

\* The project key the fetch is asked for, and the readings of the clock.
ProjectKeys == {"proj"}
Timestamps == {"2024-01-01T00:00:00", "2024-01-01T00:00:01"}

-----------------------------------------------------------------------------
(* json.dumps, and the reports as the Python dictionaries that are stored. *)

\* A Python dict whose keys are any hashable values (by_type, metrics), f
\* mapping each key, a tagged value, to its value.  A dict whose keys are all
\* strings is the value json.loads gives for an object of these keys.
PyDict(f) ==
    IF \A key \in DOMAIN f : key.k = "str"
    THEN JObj([s \in {key.v : key \in DOMAIN f} |-> f[JStr(s)]])
    ELSE [k |-> "dict", v |-> f]

\* The key json.dumps writes for a dict key: a string as it is, None as
\* 'null'.
KeyText(key) == IF key.k = "null" THEN "null" ELSE key.v

\* The JSON value json.dumps writes for a Python value: every dict key
\* becomes a string (of two keys written alike json.loads keeps one).
RECURSIVE JsonValue(_)
JsonValue(x) ==
    CASE x.k = "dict" ->
            JObj([s \in {KeyText(key) : key \in DOMAIN x.v} |->
                    JsonValue(x.v[CHOOSE key \in DOMAIN x.v : KeyText(key) = s])])
      [] x.k = "obj" -> JObj([s \in DOMAIN x.v |-> JsonValue(x.v[s])])
      [] x.k = "list" -> JList([i \in DOMAIN x.v |-> JsonValue(x.v[i])])
      [] OTHER -> x

\* json.dumps(data)
json_dumps(data) == JsonText(JsonValue(data))

\* The dictionary parse_sonarqube_report returns.
SonarReportDict(r) ==
    JObj([key \in DOMAIN r |-> IF key \in SonarIntMetrics THEN JNum(r[key]) ELSE r[key]])

\* The dictionary parse_trivy_report returns.
TrivyReportDict(r) ==
    JObj([artifact_name |-> r.artifact_name,
          artifact_type |-> r.artifact_type,
          schema_version |-> r.schema_version,
          vulnerabilities |->
              JObj([total |-> JNum(r.vulnerabilities.total),
                    by_severity |->
                        JObj([s \in TrivySeverityKeys |->
                                 JNum(r.vulnerabilities.by_severity[s])])]),
          results |-> r.results,
          raw_data |-> r.raw_data])

\* A set of at most one element as a list.
ListOfAtMostOne(S) == IF S = {} THEN <<>> ELSE <<CHOOSE x \in S : TRUE>>

\* The dictionary _parse_sbom_json returns.
SbomJsonReportDict(r) ==
    JObj([bom_format |-> r.bom_format,
          spec_version |-> r.spec_version,
          metadata |-> r.metadata,
          components |->
              JObj([total |-> JNum(r.components.total),
                    by_type |-> PyDict([t \in DOMAIN r.components.by_type |->
                                           JNum(r.components.by_type[t])]),
                    licenses |-> JList(ListOfAtMostOne(r.components.licenses))]),
          vulnerabilities |->
              JObj([total |-> JNum(r.vulnerabilities.total),
                    by_severity |->
                        JObj([s \in SbomSeverityKeys |->
                                 JNum(r.vulnerabilities.by_severity[s])])]),
          raw_data |-> r.raw_data])

-----------------------------------------------------------------------------
(* Project.get_report and Project.set_report (src/models.py).              *)

ReportTypes == {"sonarqube", "sbom", "trivy"}

\* Report.query.filter_by(project_id=self.id, report_type=report_type)
\* .first() on the rows of the project: the position of the first row of the
\* type, 0 for None.
FirstRow(table, report_type) ==
    IF \E i \in DOMAIN table : table[i].report_type = report_type
    THEN CHOOSE i \in DOMAIN table :
            /\ table[i].report_type = report_type
            /\ \A j \in 1..(i - 1) : table[j].report_type # report_type
    ELSE 0

\* get_report: the loaded data of that row, None without one.
get_report(table, report_type) ==
    LET report == FirstRow(table, report_type) IN
    IF report = 0 THEN JNull ELSE json_loads(table[report].data).value

\* The unique constraint on (project_id, report_type) dropped: every insert
\* is accepted.
UniqueConstraint_Dropped(table, report_type) == TRUE

\* The unique constraint on (project_id, report_type): an insert is accepted
\* when the table has no row of the type.
UniqueConstraint(table, report_type) ==
    \A i \in DOMAIN table : table[i].report_type # report_type

-----------------------------------------------------------------------------
(* The risk calculators of the heatmap (src/app.py).                       *)

\* A Report row, the object with the attribute data.
ReportRow(text) == [k |-> "row", data |-> text]

\* json.loads(report.data): a dict, as get_report returns, has no attribute
\* data.
LoadReportData(report) ==
    IF report.k = "row" THEN json_loads(report.data)
    ELSE Raise("AttributeError", "data")

min(a, b) == IF a <= b THEN a ELSE b
max(a, b) == IF a >= b THEN a ELSE b

\* Python numbers, in thousandths.
IsNumber(x) == x.k \in {"num", "float"}
Thousandths(x) == IF x.k = "num" THEN 1000 * x.v ELSE 100 * x.tenths

\* round(x, 1) of x given in thousandths: the nearest tenth, as a float.
round1(t) ==
    LET down == t \div 100
        rest == t % 100
    IN PyFloat(IF rest > 50 \/ (rest = 50 /\ down % 2 = 1) THEN down + 1 ELSE down)

\* len(x)
len(x) ==
    CASE x.k = "list" -> Ok(Len(x.v))
      [] x.k = "obj" -> Ok(Cardinality(DOMAIN x.v))
      [] x.k = "str" -> Ok(Len(x.v))
      [] OTHER -> Raise("TypeError", "has no len()")

\* The number of the items v with v.get('severity') among the labels, or the
\* exception of the first item without get.
CountSeverity(items, labels) ==
    IF \E i \in DOMAIN items : items[i].k # "obj"
    THEN Raise("AttributeError", "get")
    ELSE Ok(Cardinality({i \in DOMAIN items :
                            Get(items[i].v, "severity", JNull) \in labels}))

\* The try block of calculate_vulnerability_risk on the loaded data.
VulnerabilityScore(trivy_data) ==
    IF trivy_data.k # "obj" THEN Raise("AttributeError", "get")
    ELSE LET vulnerabilities == Get(trivy_data.v, "vulnerabilities", JList(<<>>)) IN
         IF ~Truthy(vulnerabilities) THEN Ok(JNum(0))
         ELSE LET items == ItemsWithGet(vulnerabilities) IN
              IF ~items.ok THEN items
              ELSE LET critical == CountSeverity(items.value, {JStr("CRITICAL")})
                       high == CountSeverity(items.value, {JStr("HIGH")})
                       medium == CountSeverity(items.value, {JStr("MEDIUM")})
                   IN IF ~critical.ok THEN critical
                      ELSE Ok(round1(min(10000,
                                 100 * (critical.value * 3 + high.value * 2
                                        + medium.value * 1))))

calculate_vulnerability_risk(trivy_report, sbom_report) ==
    IF ~Truthy(trivy_report) THEN JNum(0)
    ELSE LET trivy_data == LoadReportData(trivy_report)
             score == IF trivy_data.ok THEN VulnerabilityScore(trivy_data.value)
                      ELSE trivy_data
         IN IF score.ok THEN score.value ELSE JNum(0)

\* CodeQualityScore without the cap of the total at 10.
CodeQualityScore_Uncapped(sonar_data) ==
    IF sonar_data.k # "obj" THEN Raise("AttributeError", "get")
    ELSE LET bugs == Get(sonar_data.v, "bugs", JNum(0))
             code_smells == Get(sonar_data.v, "code_smells", JNum(0))
             coverage == Get(sonar_data.v, "coverage", JNum(100))
         IN IF ~(IsNumber(bugs) /\ IsNumber(code_smells) /\ IsNumber(coverage))
            THEN Raise("TypeError", "unsupported operand")
            ELSE LET bug_score == min(5000, Thousandths(bugs) \div 20)
                     smell_score == min(3000, Thousandths(code_smells) \div 100)
                     coverage_score == max(0, (80000 - Thousandths(coverage)) \div 20)
                     total_score == bug_score + smell_score + coverage_score
                 IN Ok(round1(total_score))

\* The try block of calculate_code_quality_risk on the loaded data.
CodeQualityScore(sonar_data) ==
    IF sonar_data.k # "obj" THEN Raise("AttributeError", "get")
    ELSE LET bugs == Get(sonar_data.v, "bugs", JNum(0))
             code_smells == Get(sonar_data.v, "code_smells", JNum(0))
             coverage == Get(sonar_data.v, "coverage", JNum(100))
         IN IF ~(IsNumber(bugs) /\ IsNumber(code_smells) /\ IsNumber(coverage))
            THEN Raise("TypeError", "unsupported operand")
            ELSE LET bug_score == min(5000, Thousandths(bugs) \div 20)
                     smell_score == min(3000, Thousandths(code_smells) \div 100)
                     coverage_score == max(0, (80000 - Thousandths(coverage)) \div 20)
                     total_score == bug_score + smell_score + coverage_score
                 IN Ok(round1(min(10000, total_score)))

calculate_code_quality_risk(sonarqube_report) ==
    IF ~Truthy(sonarqube_report) THEN JNum(0)
    ELSE LET sonar_data == LoadReportData(sonarqube_report)
             score == IF sonar_data.ok THEN CodeQualityScore(sonar_data.value)
                      ELSE sonar_data
         IN IF score.ok THEN score.value ELSE JNum(0)

\* The try block of calculate_dependency_risk on the loaded data.
DependencyScore(sbom_data) ==
    IF sbom_data.k # "obj" THEN Raise("AttributeError", "get")
    ELSE LET components == Get(sbom_data.v, "components", JList(<<>>)) IN
         IF ~Truthy(components) THEN Ok(JNum(0))
         ELSE LET total_count == len(components)
                  items == ItemsWithGet(components)
              IN IF ~total_count.ok THEN total_count
                 ELSE IF ~items.ok THEN items
                 ELSE IF \E i \in DOMAIN items.value : items.value[i].k # "obj"
                 THEN Raise("AttributeError", "get")
                 ELSE LET vulnerable_count ==
                              Cardinality({i \in DOMAIN items.value :
                                  \/ Truthy(Get(items.value[i].v, "vulnerabilities", JNull))
                                  \/ Truthy(Get(items.value[i].v, "outdated", JNull))})
                          risk_percentage ==
                              (vulnerable_count * 10000) \div total_count.value
                      IN Ok(round1(min(10000, risk_percentage)))

calculate_dependency_risk(sbom_report) ==
    IF ~Truthy(sbom_report) THEN JNum(0)
    ELSE LET sbom_data == LoadReportData(sbom_report)
             score == IF sbom_data.ok THEN DependencyScore(sbom_data.value)
                      ELSE sbom_data
         IN IF score.ok THEN score.value ELSE JNum(0)

\* The try block of calculate_container_risk on the loaded data.
ContainerScore(trivy_data) ==
    IF trivy_data.k # "obj" THEN Raise("AttributeError", "get")
    ELSE LET misconfigurations == len(Get(trivy_data.v, "misconfigurations", JList(<<>>)))
             secrets == len(Get(trivy_data.v, "secrets", JList(<<>>)))
             items == ItemsWithGet(Get(trivy_data.v, "vulnerabilities", JList(<<>>)))
         IN IF ~misconfigurations.ok THEN misconfigurations
            ELSE IF ~secrets.ok THEN secrets
            ELSE IF ~items.ok THEN items
            ELSE LET severe == CountSeverity(items.value,
                                             {JStr("CRITICAL"), JStr("HIGH")})
                 IN IF ~severe.ok THEN severe
                    ELSE LET config_risk == min(4000, misconfigurations.value * 200)
                             secret_risk == min(3000, secrets.value * 1000)
                             vuln_risk == min(3000, severe.value * 100)
                             total_risk == config_risk + secret_risk + vuln_risk
                         IN Ok(round1(min(10000, total_risk)))

calculate_container_risk(trivy_report) ==
    IF ~Truthy(trivy_report) THEN JNum(0)
    ELSE LET trivy_data == LoadReportData(trivy_report)
             score == IF trivy_data.ok THEN ContainerScore(trivy_data.value)
                      ELSE trivy_data
         IN IF score.ok THEN score.value ELSE JNum(0)

ZeroCounts == [critical |-> 0, high |-> 0, medium |-> 0, low |-> 0]

\* The SonarQube block of calculate_severity_counts: vulnerabilities are
\* added to high, then bugs to medium (of the values the model draws only
\* integers can be added); an exception leaves the counts as they are by
\* then.
CountSonar(counts, sonarqube_report) ==
    IF ~Truthy(sonarqube_report) THEN counts
    ELSE LET sonar_data == LoadReportData(sonarqube_report) IN
         IF ~sonar_data.ok \/ sonar_data.value.k # "obj" THEN counts
         ELSE LET bugs == Get(sonar_data.value.v, "bugs", JNum(0))
                  vulnerabilities == Get(sonar_data.value.v, "vulnerabilities", JNum(0))
              IN IF vulnerabilities.k # "num" THEN counts
                 ELSE LET added == [counts EXCEPT !.high = @ + vulnerabilities.v] IN
                      IF bugs.k # "num" THEN added
                      ELSE [added EXCEPT !.medium = @ + bugs.v]

\* One pass of the loop over the Trivy vulnerabilities; acc is [counts, ok],
\* ok false once a pass has raised.
CountTrivyVuln(acc, vuln) ==
    IF ~acc.ok THEN acc
    ELSE IF vuln.k # "obj" THEN [acc EXCEPT !.ok = FALSE]
    ELSE LET sev == Get(vuln.v, "severity", JStr("")) IN
         IF sev.k # "str" THEN [acc EXCEPT !.ok = FALSE]
         ELSE LET severity == Lower(sev.v) IN
              IF severity \in DOMAIN ZeroCounts
              THEN [acc EXCEPT !.counts[severity] = @ + 1]
              ELSE acc

RECURSIVE CountTrivyLoop(_, _, _)
CountTrivyLoop(acc, vulns, i) ==
    IF i > Len(vulns) THEN acc
    ELSE CountTrivyLoop(CountTrivyVuln(acc, vulns[i]), vulns, i + 1)

\* The Trivy block of calculate_severity_counts.
CountTrivy(counts, trivy_report) ==
    IF ~Truthy(trivy_report) THEN counts
    ELSE LET trivy_data == LoadReportData(trivy_report) IN
         IF ~trivy_data.ok \/ trivy_data.value.k # "obj" THEN counts
         ELSE LET items == ItemsWithGet(Get(trivy_data.value.v, "vulnerabilities",
                                            JList(<<>>)))
              IN IF ~items.ok THEN counts
                 ELSE CountTrivyLoop([counts |-> counts, ok |-> TRUE],
                                     items.value, 1).counts

calculate_severity_counts(sonarqube_report, sbom_report, trivy_report) ==
    CountTrivy(CountSonar(ZeroCounts, sonarqube_report), trivy_report)

-----------------------------------------------------------------------------
(* Reports stored and calculator arguments drawn by the model.             *)

SonarDocument(ms) ==
    JsonText(JObj([component |-> JObj([key |-> JStr("k"), name |-> JStr("n"),
                                       measures |-> JList(ms)])]))

StoredSonarContents ==
    {SonarDocument(<<Measure("bugs", JStr("5")), Measure("vulnerabilities", JStr("3")),
                     Measure("code_smells", JStr("7")),
                     Measure("coverage", JStr("73.2"))>>),
     SonarDocument(<<Measure("bugs", JStr("12")), Measure("code_smells", JStr("80")),
                     Measure("coverage", JStr("80"))>>)}

\* Scenario C of the specification: 2 critical, 3 high, 0 medium.
TrivyScenarioC ==
    JObj([Results |-> JList(<<JObj([Vulnerabilities |-> JList(
        <<JObj([Severity |-> JStr("CRITICAL")]), JObj([Severity |-> JStr("CRITICAL")]),
          JObj([Severity |-> JStr("HIGH")]), JObj([Severity |-> JStr("HIGH")]),
          JObj([Severity |-> JStr("HIGH")])>>)])>>)])

StoredTrivyContents ==
    {JsonText(TrivyScenarioC),
     JsonText(JObj([Results |-> JList(<<JObj([Vulnerabilities |-> JList(
         <<JObj([Severity |-> JStr("Medium")]), JObj([Severity |-> JStr("low")])>>)])>>)]))}

StoredSbomContents ==
    {JsonText(JObj([components |->
                        JList(<<JObj([type |-> JStr("library"),
                                      licenses |-> JList(<<JLicense("id", "MIT")>>)])>>),
                    vulnerabilities |->
                        JList(<<JObj([ratings |-> JList(<<JRating(JStr("High"))>>)])>>)])),
     JsonText(JObj([components |-> JList(<<JObj([name |-> JStr("x"),
                                                 type |-> JNull])>>)]))}

\* parsed_data of upload_file for the uploads of a report type.
Uploads(report_type) ==
    CASE report_type = "sonarqube" ->
            {SonarReportDict(parse_sonarqube_report(c).value) : c \in StoredSonarContents}
      [] report_type = "sbom" ->
            {SbomJsonReportDict(parse_sbom_report(c).value) : c \in StoredSbomContents}
      [] report_type = "trivy" ->
            {TrivyReportDict(parse_trivy_report(c).value) : c \in StoredTrivyContents}

\* n findings of one severity.
Findings(n, severity) == [i \in 1..n |-> JObj([severity |-> JStr(severity)])]

\* Report rows: of every stored report, and of data with the lists the
\* calculators read.
ReportRows(report_type) ==
    {ReportRow(json_dumps(data)) : data \in Uploads(report_type)}
    \cup {ReportRow(JsonText(data)) : data \in
            CASE report_type = "sonarqube" ->
                    {JObj([bugs |-> JNum(200), code_smells |-> JNum(1000),
                           coverage |-> JNum(0), vulnerabilities |-> JNum(3)]),
                     JObj([bugs |-> JStr("5"), vulnerabilities |-> JNum(3)])}
              [] report_type = "sbom" ->
                    {JObj([components |->
                              JList(<<JObj([vulnerabilities |-> JList(<<JStr("CVE-1")>>)]),
                                      JObj([outdated |-> JNum(1)]),
                                      JObj([name |-> JStr("x")])>>)]),
                     JObj([components |-> JList(<<JObj([outdated |-> JNum(1)])>>)])}
              [] report_type = "trivy" ->
                    {JObj([vulnerabilities |->
                              JList(Findings(2, "CRITICAL") \o Findings(3, "HIGH")
                                    \o Findings(1, "low"))]),
                     JObj([vulnerabilities |-> JList(Findings(1, "MEDIUM") \o <<JNull>>)]),
                     JObj([vulnerabilities |-> JList(Findings(40, "CRITICAL")),
                           misconfigurations |-> JList(Findings(21, "HIGH")),
                           secrets |-> JList(<<JStr("key"), JStr("token"),
                                               JStr("password"), JStr("cert")>>)]),
                     JObj([misconfigurations |-> JNull])}}

\* What a calculator can be given for a report: None, the dictionary
\* get_report returns, or the Report row whose data it loads.
ReportArguments(report_type) ==
    {JNull} \cup Uploads(report_type) \cup ReportRows(report_type)

-----------------------------------------------------------------------------
(* The state machine.                                                      *)

\* The hash seed of an interpreter process: Python draws it when it starts
\* (hash randomization), and the iteration order of a set of str follows it.
HashSeeds == {0, 1}

RECURSIVE Enumerate(_)
Enumerate(S) ==
    IF S = {} THEN <<>>
    ELSE LET x == CHOOSE y \in S : TRUE IN <<x>> \o Enumerate(S \ {x})

Reverse(seq) == [i \in DOMAIN seq |-> seq[Len(seq) + 1 - i]]

\* list(S) of a set S: its elements in the iteration order of the process,
\* which differs between hash seeds when S has two str elements or more.
list(S, seed) == IF seed = 0 THEN Enumerate(S) ELSE Reverse(Enumerate(S))

\* The report of an SBOM normalizer as the process returns it:
\* component_summary['licenses'], collected as a set, is returned as
\* list(component_summary['licenses']).
WithLicenseList(r, seed) ==
    IF r.ok
    THEN Ok([r.value EXCEPT !.components.licenses = list(@, seed)])
    ELSE r

\* What a call of a normalizer returns or raises in a process with the given
\* hash seed.  The normalizers read the content and nothing else: no module
\* variable, no clock.
Normalize(normalizer, c, seed) ==
    CASE normalizer = "parse_sonarqube_report" -> parse_sonarqube_report(c)
      [] normalizer = "parse_sbom_report" -> WithLicenseList(parse_sbom_report(c), seed)
      [] normalizer = "parse_trivy_report" -> parse_trivy_report(c)
      [] normalizer = "parse_trivy_html_report" -> parse_trivy_html_report(c)

\* The uploads of the repeated calls.
XmlLicense(field, text) ==
    SrcElem("", "license", NoAttrib, None, <<Leaf("", field, text)>>)

XmlLicensed(names) ==
    XmlBom("", NoAttrib,
           <<SrcElem("", "component", [type |-> "library"], None,
                     <<Leaf("", "name", "libA"),
                       SrcElem("", "licenses", NoAttrib, None,
                               [i \in DOMAIN names |-> XmlLicense("id", names[i])])>>)>>)

JsonLicensed(names) ==
    JsonText(JObj([components |->
        JList(<<JObj([type |-> JStr("library"),
                      licenses |-> JList([i \in DOMAIN names |->
                                             JLicense("id", names[i])])])>>)]))

LicenseLists == {<<>>, <<"MIT">>, <<"MIT", "Apache-2.0">>, <<"Apache-2.0", "MIT", "MIT">>}

RepeatedCalls ==
    {<<"parse_sbom_report", c>> :
        c \in {GarbageText} \cup {XmlLicensed(names) : names \in LicenseLists}
                \cup {JsonLicensed(names) : names \in LicenseLists}}
    \cup {<<"parse_sonarqube_report", c>> :
            c \in {GarbageText, JsonText(JObj(EmptyDict)), XmlLicensed(<<>>)}}
    \cup {<<"parse_trivy_report", c>> :
            c \in {GarbageText, JsonText(JObj(EmptyDict)), JsonText(JList(<<>>))}}
    \cup {<<"parse_trivy_html_report", c>> :
            c \in {HtmlText(None, None, <<>>, <<>>),
                   HtmlText("Image scan", None,
                            <<<<HtmlHeader, Cells(<<"CVE-2024-1", "openssl", "1.0", "HIGH">>)>>>>,
                            <<>>)}}

\* The paths upload_file saves to, and a path without a file.
UploadPaths == {"uploads/report.json", "uploads/scan.html"}
NoFile == [syntax |-> "nofile"]

\* No call kept.
NoCall == [call |-> "none"]

NoContent == [syntax |-> "none"]
NoResult == [ok |-> FALSE, exc |-> "none", msg |-> ""]

\* No fetch in progress.
NoFetch == [project_key |-> "", up |-> FALSE, last |-> 0]

\* The requests that may call set_report at the same time; a request outside
\* set_report; no set_report completed yet; no heatmap entry being computed.
Requests == {"a", "b"}
Idle == [pc |-> "idle"]
NoData == [k |-> "absent"]
NoHeat == [via |-> "none"]

Init ==
    /\ call = "none"
    /\ content = NoContent
    /\ result = NoResult
    /\ pc = "idle"
    /\ sent = <<>>
    /\ fetch = NoFetch
    /\ rows = <<>>
    /\ tx = [p \in Requests |-> Idle]
    /\ latest = [report_type \in ReportTypes |-> NoData]
    /\ heat = NoHeat
    /\ hashseed \in HashSeeds
    /\ kept = NoCall
    /\ disk = [path \in UploadPaths |-> NoFile]
    /\ projects = <<[id |-> 1, name |-> "demo", sonar_project_key |-> None]>>

\* The upload handler hands the file's text to the normalizer of its kind.
CallSonarqube ==
    /\ call = "none"
    /\ \E c \in SonarContents :
        /\ call' = "parse_sonarqube_report"
        /\ content' = c
        /\ result' = parse_sonarqube_report(c)
    /\ UNCHANGED <<fetchVars, storeVars, heat, processVars, appVars>>

CallSbom ==
    /\ call = "none"
    /\ \E c \in SbomContents :
        /\ call' = "parse_sbom_report"
        /\ content' = c
        /\ result' = parse_sbom_report(c)
    /\ UNCHANGED <<fetchVars, storeVars, heat, processVars, appVars>>

CallTrivy ==
    /\ call = "none"
    /\ \E c \in TrivyContents :
        /\ call' = "parse_trivy_report"
        /\ content' = c
        /\ result' = parse_trivy_report(c)
    /\ UNCHANGED <<fetchVars, storeVars, heat, processVars, appVars>>

\* An image-scan upload whose file name ends with .html.
CallTrivyHtml ==
    /\ call = "none"
    /\ \E c \in HtmlContents :
        /\ call' = "parse_trivy_html_report"
        /\ content' = c
        /\ result' = parse_trivy_html_report(c)
    /\ UNCHANGED <<fetchVars, storeVars, heat, processVars, appVars>>

\* The caller takes the report or the error; the normalizer keeps nothing.
Return ==
    /\ call # "none"
    /\ call' = "none"
    /\ content' = NoContent
    /\ result' = NoResult
    /\ UNCHANGED <<fetchVars, storeVars, heat, processVars, appVars>>

Next == CallSonarqube \/ CallSbom \/ CallTrivy \/ CallTrivyHtml \/ Return

Spec == Init /\ [][Next]_vars

-----------------------------------------------------------------------------
(* fetch_sonarqube_data as a state machine: one action per request.        *)

\* The status of a response, 0 when there was none.
StatusOf(r) == IF r.net = "error" THEN 0 ELSE r.status

\* AfterProbe going on to the data calls whatever the probe reported.
AfterProbe_Unchecked(up) == "get_project_measures"

\* Where fetch_sonarqube_data goes after the probe.
AfterProbe(up) == IF up THEN "get_project_measures" ELSE "done"

\* The fetch ends with the exception a call raised.
FetchRaises(e, r) ==
    /\ pc' = "done"
    /\ fetch' = [outcome |-> e, last |-> StatusOf(r)] @@ fetch

StartFetch ==
    /\ pc = "idle"
    /\ \E key \in ProjectKeys : fetch' = [NoFetch EXCEPT !.project_key = key]
    /\ pc' = "test_connection"
    /\ sent' = <<>>
    /\ UNCHANGED <<parserVars, storeVars, heat, processVars, appVars>>

\* if not client.test_connection(): raise Exception(...)
TestConnection ==
    /\ pc = "test_connection"
    /\ \E r \in StatusResponses :
         LET up == test_connection(r) IN
         /\ sent' = Append(sent, StatusEndpoint)
         /\ pc' = AfterProbe(up)
         /\ fetch' = IF up THEN [fetch EXCEPT !.up = TRUE, !.last = StatusOf(r)]
                     ELSE [outcome |-> Raise("Exception", "Cannot connect to SonarQube server"),
                           last |-> StatusOf(r)] @@ fetch
    /\ UNCHANGED <<parserVars, storeVars, heat, processVars, appVars>>

\* get_project_measures: the request for the measures.
GetProjectMeasures ==
    /\ pc = "get_project_measures"
    /\ sent' = Append(sent, MeasuresEndpoint)
    /\ \E r \in MeasuresResponses :
         LET read == MeasuresResponse(r) IN
         IF read.ok
         THEN /\ pc' = "_get_project_info"
              /\ fetch' = [read |-> read.value, last |-> StatusOf(r)] @@ fetch
         ELSE FetchRaises(read, r)
    /\ UNCHANGED <<parserVars, storeVars, heat, processVars, appVars>>

\* get_project_measures: the request for the project info, and the
\* dictionary returned.
GetProjectInfo ==
    /\ pc = "_get_project_info"
    /\ sent' = Append(sent, ProjectsEndpoint)
    /\ \E r \in ProjectsResponses :
         LET project_info == _get_project_info(r)
             measures == IF project_info.ok
                         THEN MeasuresReport(fetch.read, project_info.value,
                                             fetch.project_key)
                         ELSE project_info
         IN IF measures.ok
            THEN /\ pc' = "get_project_issues"
                 /\ fetch' = [measures |-> measures.value, last |-> StatusOf(r)] @@ fetch
            ELSE FetchRaises(measures, r)
    /\ UNCHANGED <<parserVars, storeVars, heat, processVars, appVars>>

GetProjectIssues ==
    /\ pc = "get_project_issues"
    /\ sent' = Append(sent, IssuesEndpoint)
    /\ \E r \in SearchResponses("issues") :
         LET issues == get_project_issues(r) IN
         IF issues.ok
         THEN /\ pc' = "get_security_hotspots"
              /\ fetch' = [issues |-> issues.value, last |-> StatusOf(r)] @@ fetch
         ELSE FetchRaises(issues, r)
    /\ UNCHANGED <<parserVars, storeVars, heat, processVars, appVars>>

\* get_security_hotspots, and the combined report.
GetSecurityHotspots ==
    /\ pc = "get_security_hotspots"
    /\ sent' = Append(sent, HotspotsEndpoint)
    /\ \E r \in SearchResponses("hotspots") :
         LET hotspots == get_security_hotspots(r) IN
         IF hotspots.ok
         THEN /\ pc' = "done"
              /\ \E now \in Timestamps :
                   fetch' = [outcome |->
                                Ok([issues |-> fetch.issues,
                                    issues_count |-> Len(fetch.issues),
                                    security_hotspots_list |-> hotspots.value,
                                    hotspots_count |-> Len(hotspots.value),
                                    fetch_timestamp |-> now] @@ fetch.measures),
                             last |-> StatusOf(r)] @@ fetch
         ELSE FetchRaises(hotspots, r)
    /\ UNCHANGED <<parserVars, storeVars, heat, processVars, appVars>>

\* The caller takes the report or the exception.
FetchReturn ==
    /\ pc = "done"
    /\ pc' = "idle"
    /\ sent' = <<>>
    /\ fetch' = NoFetch
    /\ UNCHANGED <<parserVars, storeVars, heat, processVars, appVars>>

FetchNext ==
    \/ StartFetch \/ TestConnection \/ GetProjectMeasures \/ GetProjectInfo
    \/ GetProjectIssues \/ GetSecurityHotspots \/ FetchReturn

FetchSpec == Init /\ [][FetchNext]_vars

-----------------------------------------------------------------------------
(* Project.set_report as a state machine: the requests interleave between  *)
(* the query and the commit.                                               *)

\* upload_file up to the query of set_report: the parsed data, and the row
\* the query finds.
SetReportQuery(p) ==
    /\ tx[p].pc = "idle"
    /\ \E report_type \in ReportTypes : \E data \in Uploads(report_type) :
          tx' = [tx EXCEPT ![p] = [pc |-> "commit", report_type |-> report_type,
                                   data |-> data,
                                   report |-> FirstRow(rows, report_type)]]
    /\ UNCHANGED <<parserVars, fetchVars, rows, latest, heat, processVars, appVars>>

\* The rest of set_report: the update of the row found, or the insert of a
\* new row, which the unique constraint rejects (IntegrityError) when a row
\* of the type has been committed meanwhile.
SetReportCommit(p) ==
    /\ tx[p].pc = "commit"
    /\ LET report_type == tx[p].report_type
           text == json_dumps(tx[p].data)
       IN IF tx[p].report # 0
          THEN /\ rows' = [rows EXCEPT ![tx[p].report].data = text]
               /\ latest' = [latest EXCEPT ![report_type] = tx[p].data]
               /\ tx' = [tx EXCEPT ![p].pc = "returned"]
          ELSE IF UniqueConstraint(rows, report_type)
          THEN /\ rows' = Append(rows, [report_type |-> report_type, data |-> text])
               /\ latest' = [latest EXCEPT ![report_type] = tx[p].data]
               /\ tx' = [tx EXCEPT ![p].pc = "returned"]
          ELSE /\ tx' = [tx EXCEPT ![p].pc = "raised"]
               /\ UNCHANGED <<rows, latest>>
    /\ UNCHANGED <<parserVars, fetchVars, heat, processVars, appVars>>

\* upload_file answers: success, or the error of the exception.
SetReportReturn(p) ==
    /\ tx[p].pc \in {"returned", "raised"}
    /\ tx' = [tx EXCEPT ![p] = Idle]
    /\ UNCHANGED <<parserVars, fetchVars, rows, latest, heat, processVars, appVars>>

StoreNext ==
    \E p \in Requests : SetReportQuery(p) \/ SetReportCommit(p) \/ SetReportReturn(p)

StoreSpec == Init /\ [][StoreNext]_vars

-----------------------------------------------------------------------------
(* The heatmap as a state machine: uploads, served one at a time, and the  *)
(* computation of a project's entry.                                       *)

\* upload_file served alone: the parsed data replaces the stored report.
UploadFile ==
    /\ heat = NoHeat
    /\ \A p \in Requests : tx[p] = Idle
    /\ \E report_type \in ReportTypes : \E data \in Uploads(report_type) :
         LET report == FirstRow(rows, report_type)
             text == json_dumps(data)
         IN /\ rows' = IF report # 0 THEN [rows EXCEPT ![report].data = text]
                       ELSE Append(rows, [report_type |-> report_type, data |-> text])
            /\ latest' = [latest EXCEPT ![report_type] = data]
    /\ UNCHANGED <<parserVars, fetchVars, tx, heat, processVars, appVars>>

\* The four scores and the severity counts of three reports.
HeatmapEntry(via, sonarqube_report, sbom_report, trivy_report) ==
    [via |-> via,
     sonarqube_report |-> sonarqube_report,
     sbom_report |-> sbom_report,
     trivy_report |-> trivy_report,
     risks |-> [vulnerabilities |-> calculate_vulnerability_risk(trivy_report, sbom_report),
                code_quality |-> calculate_code_quality_risk(sonarqube_report),
                dependencies |-> calculate_dependency_risk(sbom_report),
                containers |-> calculate_container_risk(trivy_report)],
     counts |-> calculate_severity_counts(sonarqube_report, sbom_report, trivy_report)]

\* get_heatmap_data for the project: the reports get_report returns go to
\* the calculators.
GetHeatmapData ==
    /\ heat = NoHeat
    /\ heat' = HeatmapEntry("get_heatmap_data", get_report(rows, "sonarqube"),
                            get_report(rows, "sbom"), get_report(rows, "trivy"))
    /\ UNCHANGED <<parserVars, fetchVars, storeVars, processVars, appVars>>

\* The calculators called with any of the arguments their code accepts.
CalculateRisks ==
    /\ heat = NoHeat
    /\ \E sonarqube_report \in ReportArguments("sonarqube") :
       \E sbom_report \in ReportArguments("sbom") :
       \E trivy_report \in ReportArguments("trivy") :
          heat' = HeatmapEntry("calculators", sonarqube_report, sbom_report, trivy_report)
    /\ UNCHANGED <<parserVars, fetchVars, storeVars, processVars, appVars>>

\* The entry is returned.
HeatmapReturn ==
    /\ heat # NoHeat
    /\ heat' = NoHeat
    /\ UNCHANGED <<parserVars, fetchVars, storeVars, processVars, appVars>>

HeatmapNext == UploadFile \/ GetHeatmapData \/ CalculateRisks \/ HeatmapReturn

HeatmapSpec == Init /\ [][HeatmapNext]_vars

-----------------------------------------------------------------------------
(* Repeated calls of the normalizers, in one process and across processes  *)
(* (the web application, src/reprocess_sbom.py run as a script).           *)

\* A call of any normalizer in the running process.
CallNormalizer ==
    /\ call = "none"
    /\ \E c \in RepeatedCalls :
        /\ call' = c[1]
        /\ content' = c[2]
        /\ result' = Normalize(c[1], c[2], hashseed)
    /\ UNCHANGED <<fetchVars, storeVars, heat, processVars, appVars>>

\* The call in progress is kept, with what it returned or raised, for the
\* comparison with a later call.
Keep ==
    /\ call # "none"
    /\ kept' = [call |-> call, content |-> content, result |-> result,
               hashseed |-> hashseed]
    /\ UNCHANGED <<parserVars, fetchVars, storeVars, heat, hashseed, appVars>>

\* A process ends and another starts, with the hash seed Python draws for it.
Restart ==
    /\ call = "none"
    /\ \E seed \in HashSeeds : hashseed' = seed
    /\ UNCHANGED <<parserVars, fetchVars, storeVars, heat, kept, appVars>>

RepeatNext == CallNormalizer \/ Keep \/ Return \/ Restart

RepeatSpec == Init /\ [][RepeatNext]_vars

-----------------------------------------------------------------------------
(* upload_file (src/app.py) as a state machine: the requests interleave    *)
(* between the steps that touch the upload folder and the database.        *)

\* The ids of the projects a request names: the project of the rows, and an
\* id no project has.
ProjectIds == {1, 99}

\* Project.query.get(project_id): the position of the project, 0 for None.
QueryGet(table, project_id) ==
    IF \E i \in DOMAIN table : table[i].id = project_id
    THEN CHOOSE i \in DOMAIN table : table[i].id = project_id
    ELSE 0

\* The names of the uploaded files.
UploadNames == {"report.json", "../report.json", "scan.html", "notes.txt", ""}

\* filename.rsplit('.', 1)[1] of the names drawn.
Extension(filename) ==
    CASE filename \in {"report.json", "../report.json"} -> "json"
      [] filename = "scan.html" -> "html"
      [] filename = "notes.txt" -> "txt"

ALLOWED_EXTENSIONS == {"json", "xml", "html"}

allowed_file(filename) ==
    /\ filename # ""
    /\ Lower(Extension(filename)) \in ALLOWED_EXTENSIONS

\* secure_filename of werkzeug on the names drawn: the path separators and
\* the leading dots are dropped.
secure_filename(filename) ==
    CASE filename = "../report.json" -> "report.json"
      [] OTHER -> filename

\* os.path.join(app.config['UPLOAD_FOLDER'], filename)
UploadPath(filename) == "uploads/" \o filename

\* The files the clients upload.
UploadTrivyContent == JsonText(TrivyScenarioC)
UploadCleanContent == JsonText(JObj([Results |-> JList(<<>>)]))
UploadHtmlContent == HtmlText("Image scan", "Report", <<>>, <<>>)

\* A request of upload_file: the form and the file it carries.
UploadRequest(project_id, has_file, filename, report_type, body) ==
    [project_id |-> project_id, has_file |-> has_file, filename |-> filename,
     report_type |-> report_type, body |-> body]

UploadRequests ==
    {UploadRequest(1, TRUE, "report.json", "trivy", UploadCleanContent),
     UploadRequest(1, TRUE, "report.json", "sonarqube", GarbageText),
     UploadRequest(1, TRUE, "../report.json", "trivy", UploadTrivyContent),
     UploadRequest(1, TRUE, "scan.html", "trivy", UploadHtmlContent),
     UploadRequest(99, TRUE, "report.json", "trivy", UploadTrivyContent),
     UploadRequest(1, FALSE, "", "trivy", NoFile),
     UploadRequest(1, TRUE, "", "trivy", UploadTrivyContent),
     UploadRequest(1, TRUE, "report.json", "other", UploadTrivyContent),
     UploadRequest(1, TRUE, "report.json", None, UploadTrivyContent),
     UploadRequest(1, TRUE, "notes.txt", "sbom", GarbageText)}

\* The checks of upload_file before the try block: the status of the error
\* answer, 0 when the request passes them.
UploadRejection(table, u) ==
    IF QueryGet(table, u.project_id) = 0 THEN 404
    ELSE IF ~u.has_file THEN 400
    ELSE IF u.filename = "" THEN 400
    ELSE IF u.report_type = None \/ u.report_type \notin ReportTypes THEN 400
    ELSE IF ~allowed_file(u.filename) THEN 400
    ELSE 0

\* The data of parse_trivy_html_report as json.dumps takes it: raw_data
\* holds the text as a string.
TrivyHtmlReportDict(r) ==
    TrivyReportDict([r EXCEPT !.raw_data =
        JObj([html_content |-> [k |-> "str", v |-> r.raw_data.v.html_content]])])

\* The normalizer upload_file calls: that of the report type (and of the
\* extension, for trivy) on the text read.
Normalized(report_type, filename, file_content) ==
    CASE report_type = "sonarqube" -> parse_sonarqube_report(file_content)
      [] report_type = "sbom" -> parse_sbom_report(file_content)
      [] report_type = "trivy" /\ Extension(Lower(filename)) = "html" ->
            parse_trivy_html_report(file_content)
      [] OTHER -> parse_trivy_report(file_content)

\* The dictionary the normalizer returned, as set_report takes it.
ReportDict(report_type, filename, r) ==
    CASE report_type = "sonarqube" -> SonarReportDict(r)
      [] report_type = "sbom" -> SbomJsonReportDict(r)
      [] report_type = "trivy" /\ Extension(Lower(filename)) = "html" ->
            TrivyHtmlReportDict(r)
      [] OTHER -> TrivyReportDict(r)

\* The answer of a request: its status, and what the request did.
Answered(t, status, cause) ==
    [t EXCEPT !.pc = "answered", !.status = status, !.cause = cause]

\* upload_file up to the try block: the error answers of the checks, or the
\* sanitized name and the path.
UploadStart(p) ==
    /\ tx[p] = Idle
    /\ \E u \in UploadRequests :
         LET status == UploadRejection(projects, u)
             filename == secure_filename(u.filename)
             t == [pc |-> "save", upload |-> u, filename |-> filename,
                   filepath |-> UploadPath(filename),
                   report_type |-> u.report_type, saved |-> FALSE,
                   outcome |-> NoResult, data |-> NoData, report |-> 0,
                   stored |-> FALSE,
                   status |-> 0, cause |-> "none"]
         IN tx' = [tx EXCEPT ![p] = IF status # 0
                                    THEN Answered(t, status, "rejected")
                                    ELSE t]
    /\ UNCHANGED <<parserVars, fetchVars, rows, latest, heat, processVars, appVars>>

\* file.save(filepath)
UploadSave(p) ==
    /\ tx[p].pc = "save"
    /\ disk' = [disk EXCEPT ![tx[p].filepath] = tx[p].upload.body]
    /\ tx' = [tx EXCEPT ![p].pc = "read", ![p].saved = TRUE]
    /\ UNCHANGED <<parserVars, fetchVars, rows, latest, heat, processVars, projects>>

\* The file is read back and normalized; a missing file ends the request.
UploadRead(p) ==
    /\ tx[p].pc = "read"
    /\ tx' = [tx EXCEPT ![p] =
                IF disk[tx[p].filepath] = NoFile THEN Answered(@, 500, "open")
                ELSE [@ EXCEPT !.pc = "parsed",
                               !.outcome = Normalized(tx[p].report_type, tx[p].filename,
                                                      disk[tx[p].filepath])]]
    /\ UNCHANGED <<parserVars, fetchVars, rows, latest, heat, processVars, appVars>>

\* The exception of the normalizer ends the request; otherwise set_report
\* queries the row of the type.
UploadQuery(p) ==
    /\ tx[p].pc = "parsed"
    /\ tx' = [tx EXCEPT ![p] =
                IF ~tx[p].outcome.ok THEN Answered(@, 500, "normalizer")
                ELSE [@ EXCEPT !.pc = "commit",
                               !.data = ReportDict(tx[p].report_type, tx[p].filename,
                                                   tx[p].outcome.value),
                               !.report = FirstRow(rows, tx[p].report_type)]]
    /\ UNCHANGED <<parserVars, fetchVars, rows, latest, heat, processVars, appVars>>

\* os.remove(filepath) after set_report returned, and the answer; the
\* exception of set_report, or of the removal of a file already removed,
\* ends the request with the error answer.
UploadRemove(p) ==
    /\ tx[p].pc \in {"returned", "raised"}
    /\ IF tx[p].pc = "raised"
       THEN /\ tx' = [tx EXCEPT ![p] = Answered(@, 500, "set_report")]
            /\ UNCHANGED disk
       ELSE IF disk[tx[p].filepath] = NoFile
       THEN /\ tx' = [tx EXCEPT ![p] = Answered([@ EXCEPT !.stored = TRUE],
                                                500, "remove")]
            /\ UNCHANGED disk
       ELSE /\ tx' = [tx EXCEPT ![p] = Answered([@ EXCEPT !.stored = TRUE],
                                                200, "none")]
            /\ disk' = [disk EXCEPT ![tx[p].filepath] = NoFile]
    /\ UNCHANGED <<parserVars, fetchVars, rows, latest, heat, processVars, projects>>

\* The request ends.
UploadReturn(p) ==
    /\ tx[p].pc = "answered"
    /\ tx' = [tx EXCEPT ![p] = Idle]
    /\ UNCHANGED <<parserVars, fetchVars, rows, latest, heat, processVars, appVars>>

UploadNext ==
    \E p \in Requests :
        \/ UploadStart(p) \/ UploadSave(p) \/ UploadRead(p) \/ UploadQuery(p)
        \/ SetReportCommit(p) \/ UploadRemove(p) \/ UploadReturn(p)

UploadSpec == Init /\ [][UploadNext]_vars

-----------------------------------------------------------------------------
(* find_or_create_project (src/app.py) as a state machine: the requests    *)
(* interleave between the query by name and the insert.                    *)

\* The cap on the rows of the projects table.
MaxProjects == 3

\* The JSON bodies of the requests: no JSON, a body without a name, and
\* bodies with a name.
ProjectNames == {"app", " app ", "api", "", "  "}
ProjectBodies ==
    {JNull, JObj(EmptyDict)} \cup {JObj([name |-> JStr(n)]) : n \in ProjectNames}

\* Project.query.filter_by(name=project_name).first(): the position of the
\* first project of the name, 0 for None.
FirstProject(table, project_name) ==
    IF \E i \in DOMAIN table : table[i].name = project_name
    THEN CHOOSE i \in DOMAIN table :
            /\ table[i].name = project_name
            /\ \A j \in DOMAIN table : table[j].name = project_name => i <= j
    ELSE 0

\* str(uuid.uuid4()): an id no project has.
NewProjectId(table) == Len(table) + 1

\* The answer of find_or_create_project.
ProjectAnswer(status, project_name, project_id, created) ==
    [pc |-> "answered", status |-> status, name |-> project_name,
     project_id |-> project_id, created |-> created]

\* find_or_create_project up to the query by name: the error answers, the
\* project found, or the decision to create one.
FindProject(p) ==
    /\ tx[p] = Idle
    /\ Len(projects) + Cardinality({q \in Requests : tx[q].pc = "create"}) < MaxProjects
    /\ \E data \in ProjectBodies :
         LET project_name == Strip(data.v.name.v)
             existing_project == FirstProject(projects, project_name)
         IN tx' = [tx EXCEPT ![p] =
                IF ~Truthy(data) \/ "name" \notin DOMAIN data.v
                THEN ProjectAnswer(400, None, None, FALSE)
                ELSE IF project_name = ""
                THEN ProjectAnswer(400, None, None, FALSE)
                ELSE IF existing_project # 0
                THEN ProjectAnswer(200, projects[existing_project].name,
                                   projects[existing_project].id, FALSE)
                ELSE [pc |-> "create", name |-> project_name]]
    /\ UNCHANGED <<parserVars, fetchVars, rows, latest, heat, processVars, appVars>>

\* create_project and the answer of the creation.
CreateProject(p) ==
    /\ tx[p].pc = "create"
    /\ LET project_id == NewProjectId(projects)
       IN /\ projects' = Append(projects, [id |-> project_id, name |-> tx[p].name,
                                           sonar_project_key |-> None])
          /\ tx' = [tx EXCEPT ![p] = ProjectAnswer(201, tx[p].name, project_id, TRUE)]
    /\ UNCHANGED <<parserVars, fetchVars, rows, latest, heat, processVars, disk>>

\* The request ends.
ProjectReturn(p) ==
    /\ tx[p].pc = "answered"
    /\ tx' = [tx EXCEPT ![p] = Idle]
    /\ UNCHANGED <<parserVars, fetchVars, rows, latest, heat, processVars, appVars>>

ProjectNext ==
    \E p \in Requests : FindProject(p) \/ CreateProject(p) \/ ProjectReturn(p)

ProjectSpec == Init /\ [][ProjectNext]_vars

-----------------------------------------------------------------------------
(* connect_project_sonarqube (src/app.py) as a state machine: the key is   *)
(* committed, the fetch runs request by request, and the report is stored. *)

\* Connections start while fewer than MaxStored reports are stored.
MaxStored == 1

\* The JSON bodies of the requests, and the global configuration of the
\* session.
ConnectBodies ==
    {JNull, JObj(EmptyDict), JObj([project_key |-> JStr("")])}
    \cup {JObj([project_key |-> JStr(key)]) : key \in ProjectKeys}
Sessions == [sonar_url : {None, "https://sonar"}, sonar_token : {None, "token"}]

\* The checks of connect_project_sonarqube before the try block: the status
\* of the error answer, 0 when the request passes them.
ConnectRejection(table, project_id, data, config) ==
    IF QueryGet(table, project_id) = 0 THEN 404
    ELSE IF ~Truthy(data) THEN 400
    ELSE IF ~Truthy(Get(data.v, "project_key", JNull)) THEN 400
    ELSE IF config.sonar_url = None THEN 400
    ELSE IF config.sonar_token = None THEN 400
    ELSE 0

\* sonar_data of fetch_sonarqube_data as set_report takes it.
FetchedReportDict(r) ==
    JObj([key \in DOMAIN r |->
            CASE key \in {"issues", "security_hotspots_list"} ->
                    JList([i \in DOMAIN r[key] |-> JObj(r[key][i])])
              [] key = "raw_metrics" -> PyDict(r[key])
              [] key = "fetch_timestamp" -> JStr(r[key])
              [] key \in ClientIntMetrics \cup {"issues_count", "hotspots_count"} ->
                    JNum(r[key])
              [] OTHER -> r[key]])

\* The status of the error answer: by the words of the message, which for
\* an HTTP error carries the status code.
ConnectErrorStatus(f) ==
    IF ~f.up THEN 500
    ELSE IF f.last = 403 THEN 403
    ELSE IF f.last = 404 THEN 404
    ELSE 500

\* connect_project_sonarqube up to the fetch: the error answers of the
\* checks, or the commit of the project key and the start of the fetch.
ConnectStart(p) ==
    /\ pc = "idle"
    /\ \A q \in Requests : tx[q] = Idle
    /\ Len(rows) < MaxStored
    /\ \E project_id \in ProjectIds, data \in ConnectBodies, config \in Sessions :
         LET status == ConnectRejection(projects, project_id, data, config)
             project == QueryGet(projects, project_id)
             project_key == data.v.project_key.v
         IN IF status # 0
            THEN /\ tx' = [tx EXCEPT ![p] = [pc |-> "answered", status |-> status]]
                 /\ UNCHANGED <<fetchVars, projects>>
            ELSE /\ projects' = [projects EXCEPT ![project].sonar_project_key = project_key]
                 /\ fetch' = [NoFetch EXCEPT !.project_key = project_key]
                 /\ pc' = "test_connection"
                 /\ sent' = <<>>
                 /\ tx' = [tx EXCEPT ![p] =
                             [pc |-> "connect", project |-> project,
                              was |-> [sonar_project_key |->
                                           projects[project].sonar_project_key,
                                       reports |-> rows]]]
    /\ UNCHANGED <<parserVars, rows, latest, heat, processVars, disk>>

\* The report fetched is stored with set_report and the request answers
\* success; the exception of the fetch gives the error answer.
ConnectStore(p) ==
    /\ tx[p].pc = "connect"
    /\ pc = "done"
    /\ IF fetch.outcome.ok
       THEN LET report == FirstRow(rows, "sonarqube")
                text == json_dumps(FetchedReportDict(fetch.outcome.value))
            IN /\ rows' = IF report # 0 THEN [rows EXCEPT ![report].data = text]
                          ELSE Append(rows, [report_type |-> "sonarqube", data |-> text])
               /\ latest' = [latest EXCEPT !["sonarqube"] =
                                FetchedReportDict(fetch.outcome.value)]
               /\ tx' = [tx EXCEPT ![p] = [pc |-> "answered", status |-> 200] @@ @]
       ELSE /\ tx' = [tx EXCEPT ![p] = [pc |-> "answered",
                                       status |-> ConnectErrorStatus(fetch)] @@ @]
            /\ UNCHANGED <<rows, latest>>
    /\ pc' = "idle"
    /\ sent' = <<>>
    /\ fetch' = NoFetch
    /\ UNCHANGED <<parserVars, heat, processVars, appVars>>

\* The request ends.
ConnectReturn(p) ==
    /\ tx[p].pc = "answered"
    /\ tx' = [tx EXCEPT ![p] = Idle]
    /\ UNCHANGED <<parserVars, fetchVars, rows, latest, heat, processVars, appVars>>

ConnectNext ==
    \/ \E p \in Requests : ConnectStart(p) \/ ConnectStore(p) \/ ConnectReturn(p)
    \/ TestConnection \/ GetProjectMeasures \/ GetProjectInfo
    \/ GetProjectIssues \/ GetSecurityHotspots

ConnectSpec == Init /\ [][ConnectNext]_vars

-----------------------------------------------------------------------------
(* Properties of parse_trivy_report.                                       *)

\* A JSON value is a list, or an empty string or dict (which a loop passes
\* over as over an empty list).
ListLike(x) == x.k = "list" \/ (x.k \in {"str", "obj"} /\ ~Truthy(x))

\* The elements of a list-like JSON value.
Elements(x) == IF x.k = "list" THEN x.v ELSE <<>>

\* A Severity that matches the label case-insensitively.
SameIgnoringCase(sev, label) == sev.k = "str" /\ Lower(sev.v) = Lower(label)

\* The payloads of C3: Results (when present) a list of objects, each with
\* Vulnerabilities (when present) a list of objects whose Severity, when
\* present, is a string.
TrivyWellFormed(data) ==
    /\ data.k = "obj"
    /\ "Results" \in DOMAIN data.v => data.v["Results"].k = "list"
    /\ \A i \in DOMAIN Get(data.v, "Results", JList(<<>>)).v :
         LET res == data.v["Results"].v[i] IN
         /\ res.k = "obj"
         /\ "Vulnerabilities" \in DOMAIN res.v => res.v["Vulnerabilities"].k = "list"
         /\ \A j \in DOMAIN Get(res.v, "Vulnerabilities", JList(<<>>)).v :
              LET vuln == res.v["Vulnerabilities"].v[j] IN
              /\ vuln.k = "obj"
              /\ "Severity" \in DOMAIN vuln.v => vuln.v["Severity"].k = "str"

\* The (result, vulnerability) positions of a well-formed payload.
TrivyPositions(data) ==
    {p \in (1..MaxItems) \X (1..(MaxItems + 2)) :
        /\ p[1] \in DOMAIN Get(data.v, "Results", JList(<<>>)).v
        /\ p[2] \in DOMAIN Get(data.v["Results"].v[p[1]].v, "Vulnerabilities", JList(<<>>)).v}

TrivyVulnAt(data, p) == data.v["Results"].v[p[1]].v["Vulnerabilities"].v[p[2]]

TrivyNamedLabels == {"CRITICAL", "HIGH", "MEDIUM", "LOW"}

\* C3: on a well-formed image-scan payload each of CRITICAL, HIGH, MEDIUM, LOW
\* counts the vulnerabilities of all results whose Severity matches the label
\* case-insensitively, UNKNOWN counts every other vulnerability, and total is
\* the number of vulnerabilities; severities HIGH, high, CRITICAL, bogus give
\* CRITICAL 1, HIGH 2, MEDIUM 0, LOW 0, UNKNOWN 1 and total 4.
C3_TrivySeverityCounts ==
    (call = "parse_trivy_report" /\ content.syntax = "json"
        /\ TrivyWellFormed(content.data))
    => /\ result.ok
       /\ LET data == content.data
              by_severity == result.value.vulnerabilities.by_severity
              matching(label) ==
                  {p \in TrivyPositions(data) :
                      /\ "Severity" \in DOMAIN TrivyVulnAt(data, p).v
                      /\ SameIgnoringCase(TrivyVulnAt(data, p).v["Severity"], label)}
              named == UNION {matching(label) : label \in TrivyNamedLabels}
          IN /\ DOMAIN by_severity = TrivyNamedLabels \cup {"UNKNOWN"}
             /\ \A label \in TrivyNamedLabels :
                    by_severity[label] = Cardinality(matching(label))
             /\ by_severity["UNKNOWN"] = Cardinality(TrivyPositions(data) \ named)
             /\ result.value.vulnerabilities.total = Cardinality(TrivyPositions(data))
             /\ data = TrivyScenarioB =>
                    /\ by_severity = [CRITICAL |-> 1, HIGH |-> 2, MEDIUM |-> 0,
                                      LOW |-> 0, UNKNOWN |-> 1]
                    /\ result.value.vulnerabilities.total = 4

C3_Witness ==
    /\ call = "parse_trivy_report"
    /\ content = JsonText(TrivyScenarioB)
    /\ result.ok
    /\ result.value.vulnerabilities.by_severity["HIGH"] = 2

\* The payloads of C10: a JSON object in which Results, a result's
\* Vulnerabilities and a vulnerability's Severity may each be missing or null.
TrivyObjectWithNulls(data) ==
    /\ data.k = "obj"
    /\ "Results" \in DOMAIN data.v => data.v["Results"].k \in {"list", "null"}
    /\ Get(data.v, "Results", JNull).k = "list" =>
         \A i \in DOMAIN data.v["Results"].v :
           LET res == data.v["Results"].v[i] IN
           /\ res.k = "obj"
           /\ "Vulnerabilities" \in DOMAIN res.v =>
                  res.v["Vulnerabilities"].k \in {"list", "null"}
           /\ Get(res.v, "Vulnerabilities", JNull).k = "list" =>
                \A j \in DOMAIN res.v["Vulnerabilities"].v :
                  LET vuln == res.v["Vulnerabilities"].v[j] IN
                  /\ vuln.k = "obj"
                  /\ "Severity" \in DOMAIN vuln.v =>
                         vuln.v["Severity"].k \in {"str", "null"}

\* C10: parse_trivy_report raises only on invalid JSON; every JSON object, also
\* with Results, Vulnerabilities or Severity missing or null, yields a report.
C10_TrivyRaisesOnlyOnInvalidJson ==
    call = "parse_trivy_report" =>
        /\ ~result.ok => (content.syntax # "json" \/ ~TrivyObjectWithNulls(content.data))
        /\ (content.syntax = "json" /\ TrivyObjectWithNulls(content.data)) => result.ok

-----------------------------------------------------------------------------
(* Properties of parse_sbom_report.                                        *)

SbomReturned == call = "parse_sbom_report" /\ result.ok

\* C1: for every valid JSON SBOM the values of vulnerabilities.by_severity sum
\* to vulnerabilities.total: one severity key is incremented for each
\* vulnerability record, whatever its ratings list (empty or missing too).
C1_JsonSeveritySumsToTotal ==
    (SbomReturned /\ content.syntax = "json")
    => SumValues(result.value.vulnerabilities.by_severity)
           = result.value.vulnerabilities.total

\* C2: for every well-formed XML SBOM, with any number of vulnerability
\* elements and of ratings in each, the values of vulnerabilities.by_severity
\* sum to vulnerabilities.total.
C2_XmlSeveritySumsToTotal ==
    (SbomReturned /\ content.syntax = "xml")
    => SumValues(result.value.vulnerabilities.by_severity)
           = result.value.vulnerabilities.total

\* C5: for any SBOM, JSON or XML, with any number of component entries, the
\* values of components.by_type sum to components.total.
C5_ByTypeSumsToTotal ==
    SbomReturned
    => SumValues(result.value.components.by_type) = result.value.components.total

\* The elements of a document, as written, in document order.
RECURSIVE SrcIter(_)
SrcIter(e) == <<e>> \o Flatten([i \in DOMAIN e.children |-> SrcIter(e.children[i])])

\* The elements of the document that are named local.
ElementsNamed(c, local) ==
    LET elems == SrcIter(c.root)
    IN {i \in DOMAIN elems : elems[i].local = local}

\* The elements of the document whose name ends with local.
ElementsNamedLike(c, local) ==
    LET elems == SrcIter(c.root)
    IN {i \in DOMAIN elems : EndsWith([ns |-> "", local |-> elems[i].local], local)}

\* All elements whose name ends with local are named local, and they all bear
\* the same prefix: the document has one kind of local element.
OneKind(c, local) ==
    LET elems == SrcIter(c.root)
        named == ElementsNamed(c, local)
    IN /\ ElementsNamedLike(c, local) = named
       /\ Cardinality({elems[i].prefix : i \in named}) <= 1

Min(a, b) == IF a < b THEN a ELSE b

\* C4 as stated: for an XML SBOM with N component elements and M
\* vulnerability elements, components.total is N with min(N, 100) entries in
\* components.details and vulnerabilities.total is M with min(M, 50) entries
\* in vulnerabilities.details.
C4_XmlTotalsOfAnyDocument ==
    (SbomReturned /\ content.syntax = "xml")
    => LET N == Cardinality(ElementsNamed(content, "component"))
           M == Cardinality(ElementsNamed(content, "vulnerability"))
       IN /\ result.value.components.total = N
          /\ Len(result.value.components.details) = Min(N, 100)
          /\ result.value.vulnerabilities.total = M
          /\ Len(result.value.vulnerabilities.details) = Min(M, 50)

\* C4, amended: for an XML SBOM whose N component elements all bear one
\* qualified name and that has no other element whose tag ends with
\* 'component', components.total is N with min(N, 100) entries in
\* components.details; likewise, for its M vulnerability elements,
\* vulnerabilities.total is M with min(M, 50) entries in
\* vulnerabilities.details; 101 components give total 101 and 100 entries;
\* and no XML document gets more than 100 and 50 entries.
C4_XmlTotalsAndCaps ==
    (SbomReturned /\ content.syntax = "xml")
    => LET N == Cardinality(ElementsNamed(content, "component"))
           M == Cardinality(ElementsNamed(content, "vulnerability"))
           components == result.value.components
           vulnerabilities == result.value.vulnerabilities
       IN /\ Len(components.details) <= 100
          /\ Len(vulnerabilities.details) <= 50
          /\ OneKind(content, "component") =>
                /\ components.total = N
                /\ Len(components.details) = Min(N, 100)
                /\ N = 101 => (components.total = 101 /\ Len(components.details) = 100)
          /\ OneKind(content, "vulnerability") =>
                /\ vulnerabilities.total = M
                /\ Len(vulnerabilities.details) = Min(M, 50)

C4_Witness ==
    /\ SbomReturned
    /\ content.syntax = "xml"
    /\ OneKind(content, "component")
    /\ Cardinality(ElementsNamed(content, "component")) = 101
    /\ result.value.components.total = 101
    /\ Len(result.value.components.details) = 100

\* A licenses entry the component loop passes over: an object without
\* license, or whose license is an object with a hashable name (or id, when
\* the name is missing or empty); a string or list that does not hold
\* 'license'.
LicenseEntryAccepted(license_info) ==
    CASE license_info.k = "obj" ->
            "license" \in DOMAIN license_info.v =>
                /\ license_info.v["license"].k = "obj"
                /\ LET license == license_info.v["license"].v
                       name == Get(license, "name", JNull)
                   IN Hashable(IF Truthy(name) THEN name ELSE Get(license, "id", JNull))
      [] license_info.k = "str" -> ~Contains(license_info.v, "license")
      [] license_info.k = "list" ->
            \A i \in DOMAIN license_info.v : license_info.v[i] # JStr("license")
      [] OTHER -> FALSE

\* The JSON values _parse_sbom_json accepts: an object whose components and
\* vulnerabilities, when present, are list-like; each component an object
\* with a hashable type and licenses that is missing, a string, a dict
\* without a license key or a list of accepted entries; each vulnerability an
\* object whose ratings is missing or falsy, or a list starting with an object
\* whose severity, when present, is a string.
SbomJsonAccepts(data) ==
    /\ data.k = "obj"
    /\ ListLike(Get(data.v, "components", JList(<<>>)))
    /\ ListLike(Get(data.v, "vulnerabilities", JList(<<>>)))
    /\ LET components == Elements(Get(data.v, "components", JList(<<>>))) IN
       \A i \in DOMAIN components :
         /\ components[i].k = "obj"
         /\ Hashable(Get(components[i].v, "type", JNull))
         /\ LET licenses == Get(components[i].v, "licenses", JList(<<>>)) IN
            CASE licenses.k = "list" ->
                    \A j \in DOMAIN licenses.v : LicenseEntryAccepted(licenses.v[j])
              [] licenses.k = "str" -> TRUE
              [] licenses.k = "obj" ->
                    \A key \in DOMAIN licenses.v : ~Contains(key, "license")
              [] OTHER -> FALSE
    /\ LET vulnerabilities == Elements(Get(data.v, "vulnerabilities", JList(<<>>))) IN
       \A i \in DOMAIN vulnerabilities :
         /\ vulnerabilities[i].k = "obj"
         /\ LET ratings == Get(vulnerabilities[i].v, "ratings", JList(<<>>)) IN
            \/ ~Truthy(ratings)
            \/ /\ ratings.k = "list"
               /\ ratings.v[1].k = "obj"
               /\ Get(ratings.v[1].v, "severity", JStr("unknown")).k = "str"

NoPrefixes(c) ==
    LET elems == SrcIter(c.root)
    IN \A i \in DOMAIN elems : elems[i].prefix = ""

\* A CycloneDX namespace, for the xmlns attribute.
CycloneDxNamespaces == {namespace_uris[i] : i \in DOMAIN namespace_uris} \cup {Ns_1_2}

\* The components of the report of the same document with xmlns on its root
\* are those of the report returned.
SameComponentsWith(xmlns) ==
    LET declared == parse_sbom_report([content EXCEPT !.xmlns = xmlns])
    IN /\ declared.ok
       /\ declared.value.components.total = result.value.components.total
       /\ declared.value.components.by_type = result.value.components.by_type
       /\ declared.value.components.details = result.value.components.details

\* C7 as stated: two XML SBOM documents that are identical except that one
\* declares a CycloneDX namespace on the root (xmlns attribute) and the other
\* does not give the same components.total, components.by_type and
\* components.details.
C7_SameComponentsOfAnyDocument ==
    (SbomReturned /\ content.syntax = "xml" /\ content.xmlns = "")
    => \A xmlns \in CycloneDxNamespaces : SameComponentsWith(xmlns)

\* C7, amended: two XML SBOM documents that are identical except that one
\* declares a CycloneDX namespace on the root (xmlns attribute) and the other
\* does not, and in which no element below the root is written in a namespace
\* of its own, give the same components.total, components.by_type and
\* components.details.
C7_SameComponentsWithoutXmlns ==
    (SbomReturned /\ content.syntax = "xml" /\ content.xmlns = "" /\ NoPrefixes(content))
    => \A xmlns \in CycloneDxNamespaces : SameComponentsWith(xmlns)

C7_Witness ==
    /\ SbomReturned
    /\ content.syntax = "xml"
    /\ content.xmlns = ""
    /\ NoPrefixes(content)
    /\ result.value.components.total = 2
    /\ \E i \in 1..2 : result.value.components.details[i]["name"] = "libA"
    /\ SameComponentsWith(namespace_uris[2])

-----------------------------------------------------------------------------
(* Properties of parse_sonarqube_report.                                   *)

\* The measures list of a payload (empty when component or measures is missing).
SonarMeasuresOf(data) ==
    Elements(Get(Get(data.v, "component", JObj(EmptyDict)).v, "measures", JList(<<>>)))

\* The positions of the measures named name.
SonarNamed(data, name) ==
    {i \in DOMAIN SonarMeasuresOf(data) :
        Get(SonarMeasuresOf(data)[i].v, "metric", JNull) = JStr(name)}

Max(S) == CHOOSE x \in S : \A y \in S : y <= x

\* The value a metric name ends with: that of its last measure ('0' when the
\* measure has no value), and the default of its kind when there is none.
SonarLastValue(data, name) ==
    IF SonarNamed(data, name) = {}
    THEN (CASE name \in SonarIntMetrics -> JNum(0)
            [] name \in SonarFloatMetrics -> PyFloat(0)
            [] OTHER -> JStr("A"))
    ELSE Get(SonarMeasuresOf(data)[Max(SonarNamed(data, name))].v, "value", JStr("0"))

\* The payloads parse_sonarqube_report accepts: an object whose component, when
\* present, is an object, whose measures, when present, is a list (or an empty
\* string or dict) of objects with hashable metric names, and whose count and
\* ratio metrics end with a
\* value that int() or float() accepts.
SonarAccepts(data) ==
    /\ data.k = "obj"
    /\ Get(data.v, "component", JObj(EmptyDict)).k = "obj"
    /\ ListLike(Get(Get(data.v, "component", JObj(EmptyDict)).v, "measures", JList(<<>>)))
    /\ \A i \in DOMAIN SonarMeasuresOf(data) :
          /\ SonarMeasuresOf(data)[i].k = "obj"
          /\ Hashable(Get(SonarMeasuresOf(data)[i].v, "metric", JNull))
    /\ \A name \in SonarIntMetrics : int(SonarLastValue(data, name)).ok
    /\ \A name \in SonarFloatMetrics : float(SonarLastValue(data, name)).ok

\* The report with every field defaulted.
SonarDefaulted(report) ==
    /\ report["project_key"] = JStr("Unknown")
    /\ report["project_name"] = JStr("Unknown")
    /\ \A name \in SonarIntMetrics : report[name] = 0
    /\ \A name \in SonarFloatMetrics : report[name] = PyFloat(0)
    /\ \A name \in SonarRatingMetrics : report[name] = JStr("A")

SonarShaped(data) ==
    /\ SonarAccepts(data)
    /\ "component" \in DOMAIN data.v
    /\ "measures" \in DOMAIN data.v["component"].v
    /\ \A i \in DOMAIN SonarMeasuresOf(data) :
          /\ {"metric", "value"} \subseteq DOMAIN SonarMeasuresOf(data)[i].v
          /\ SonarMeasuresOf(data)[i].v["metric"].k = "str"

\* Scenario A of the specification.
SonarScenarioA ==
    JObj([component |-> JObj([key |-> JStr("k"), name |-> JStr("n"),
        measures |-> JList(<<Measure("bugs", JStr("5")),
                             Measure("coverage", JStr("73.2"))>>)])])

\* C9: for each named metric the report holds the coerced value of the measure
\* with that name (the last one, when several carry the name) and otherwise
\* the default: 0 for the counts, 0.0 for coverage and
\* duplicated_lines_density, 'A' for the three ratings; bugs '5' and coverage
\* '73.2' give bugs 5, coverage 73.2, vulnerabilities 0 and sqale_rating 'A'.
C9_SonarMetricValues ==
    (call = "parse_sonarqube_report" /\ content.syntax = "json"
        /\ SonarShaped(content.data))
    => /\ result.ok
       /\ \A name \in SonarIntMetrics :
            result.value[name] =
                IF SonarNamed(content.data, name) = {} THEN 0
                ELSE int(SonarLastValue(content.data, name)).value
       /\ \A name \in SonarFloatMetrics :
            result.value[name] =
                IF SonarNamed(content.data, name) = {} THEN PyFloat(0)
                ELSE float(SonarLastValue(content.data, name)).value
       /\ \A name \in SonarRatingMetrics :
            result.value[name] =
                IF SonarNamed(content.data, name) = {} THEN JStr("A")
                ELSE SonarLastValue(content.data, name)
       /\ content.data = SonarScenarioA =>
            /\ result.value["bugs"] = 5
            /\ result.value["coverage"] = PyFloat(732)
            /\ result.value["vulnerabilities"] = 0
            /\ result.value["sqale_rating"] = JStr("A")

C9_Witness ==
    /\ call = "parse_sonarqube_report"
    /\ content = JsonText(SonarScenarioA)
    /\ result.ok
    /\ result.value["bugs"] = 5

-----------------------------------------------------------------------------
(* Properties of fetch_sonarqube_data and SonarQubeClient.                 *)

\* C11: in fetch_sonarqube_data the liveness probe completes before any data
\* call is issued: the first request goes to the status endpoint, and a
\* request to the measures, project-info, issues or hotspots endpoint is only
\* issued after the probe reported up; when the probe reports not-up (a
\* status other than 'UP', an HTTP failure or an exception) the call fails
\* having issued no other request.
C11_ProbeBeforeDataCalls ==
    /\ sent # <<>> => sent[1] = StatusEndpoint
    /\ \A i \in DOMAIN sent : sent[i] \in DataEndpoints => (i > 1 /\ fetch.up)
    /\ (pc \notin {"idle", "test_connection"} /\ ~fetch.up) =>
          /\ pc = "done"
          /\ sent = <<StatusEndpoint>>
          /\ ~fetch.outcome.ok
          /\ fetch.outcome.msg = "Cannot connect to SonarQube server"

C11_Witness ==
    /\ pc = "done"
    /\ ~fetch.up
    /\ fetch.last = 200
    /\ sent = <<StatusEndpoint>>
    /\ ~fetch.outcome.ok

\* The error kind the spec names for the status of a failed response.
KindOfStatus(status) ==
    CASE status = 403 -> "permission-denied"
      [] status = 404 -> "not-found"
      [] status = 401 -> "authentication-failed"
      [] OTHER -> "upstream-error"

\* The error kind an exception of the client reports, by its message.
ErrorKind(e) ==
    CASE e.msg = "Access denied to SonarQube project" -> "permission-denied"
      [] e.msg = "Project not found in SonarQube" -> "not-found"
      [] e.msg = "Authentication failed" -> "authentication-failed"
      [] OTHER -> "upstream-error"

\* The three data calls of fetch_sonarqube_data.
DataCalls == {MeasuresEndpoint, IssuesEndpoint, HotspotsEndpoint}

\* C12: each of the three data calls (measures, issues, hotspots) reports an
\* HTTP failure by its status: 403 as permission-denied, 404 as not-found,
\* 401 as authentication-failed, any other failure status as a generic
\* upstream error, the same kind whichever call received the status.
C12_FailureKindByStatus ==
    (/\ pc = "done"
     /\ sent # <<>>
     /\ sent[Len(sent)] \in DataCalls
     /\ fetch.last >= 400) =>
        /\ ~fetch.outcome.ok
        /\ ErrorKind(fetch.outcome) = KindOfStatus(fetch.last)

\* get_project_measures has returned its dictionary.
MeasuresReturned == "measures" \in DOMAIN fetch

\* What parse_sonarqube_report makes of the body get_project_measures read.
ParsedMeasures == parse_sonarqube_report(JsonText(fetch.read.data))

\* C13 as written: on the same measures document get_project_measures and
\* parse_sonarqube_report agree on every shared field, the twelve metrics and
\* project_key and project_name, also when the component has no key or name.
C13_SharedFieldsEqual ==
    MeasuresReturned =>
        /\ ParsedMeasures.ok
        /\ \A name \in SonarMetrics \cup {"project_key", "project_name"} :
              fetch.measures[name] = ParsedMeasures.value[name]

\* C13 amended: whenever get_project_measures returns, parse_sonarqube_report
\* accepts the same document and the two agree on the twelve metric fields,
\* defaults included, and on project_key and project_name when the component
\* carries them; for a component without key the client gives the requested
\* project key where the parser gives 'Unknown', and for a component without
\* name the parser gives 'Unknown' whatever the client took from the project
\* search.
C13_MetricFieldsEqual ==
    MeasuresReturned =>
        /\ ParsedMeasures.ok
        /\ \A name \in SonarMetrics :
              fetch.measures[name] = ParsedMeasures.value[name]
        /\ IF "key" \in DOMAIN fetch.read.component
           THEN fetch.measures.project_key = ParsedMeasures.value.project_key
           ELSE /\ fetch.measures.project_key = JStr(fetch.project_key)
                /\ ParsedMeasures.value.project_key = JStr("Unknown")
        /\ IF "name" \in DOMAIN fetch.read.component
           THEN fetch.measures.project_name = ParsedMeasures.value.project_name
           ELSE ParsedMeasures.value.project_name = JStr("Unknown")

\* A measured metric, a defaulted rating and a component with key and name.
C13_Witness ==
    /\ MeasuresReturned
    /\ fetch.measures.bugs = 5
    /\ fetch.measures.sqale_rating = JStr("A")
    /\ fetch.measures.project_key = JStr("k")
    /\ fetch.measures.project_name = JStr("n")

-----------------------------------------------------------------------------
(* Properties of the heatmap's risk calculators.                           *)

\* A score in tenths: the calculators return the int 0 or a float.
Tenths(x) == IF x.k = "num" THEN 10 * x.v ELSE x.tenths

\* The by_severity count of a stored image-scan report, 0 for an absent one.
TrivyStoredCount(report, label) ==
    IF report = JNull THEN 0
    ELSE report.v.vulnerabilities.v.by_severity.v[label].v

\* A metric of a stored static-analysis report, 0 for an absent one.
SonarStoredCount(report, name) ==
    IF report = JNull THEN 0 ELSE report.v[name].v

\* C14: for the image-scan report Project.get_report returns,
\* calculate_vulnerability_risk is round(min(10, (3*critical + 2*high +
\* medium) / 10), 1) over the report's severity counts, and 0 without a
\* report; 2 critical and 3 high give 1.2.
C14_VulnerabilityRiskOfStoredReport ==
    heat.via = "get_heatmap_data" =>
        Tenths(heat.risks.vulnerabilities) =
            min(100, 3 * TrivyStoredCount(heat.trivy_report, "CRITICAL")
                     + 2 * TrivyStoredCount(heat.trivy_report, "HIGH")
                     + TrivyStoredCount(heat.trivy_report, "MEDIUM"))

\* C15: for the reports Project.get_report returns, calculate_severity_counts
\* gives high = static-analysis vulnerabilities + image-scan HIGH, medium =
\* static-analysis bugs + image-scan MEDIUM, critical = image-scan CRITICAL,
\* low = image-scan LOW, whatever the SBOM report holds.
C15_SeverityCountsOfStoredReports ==
    heat.via = "get_heatmap_data" =>
        heat.counts =
            [critical |-> TrivyStoredCount(heat.trivy_report, "CRITICAL"),
             high |-> SonarStoredCount(heat.sonarqube_report, "vulnerabilities")
                      + TrivyStoredCount(heat.trivy_report, "HIGH"),
             medium |-> SonarStoredCount(heat.sonarqube_report, "bugs")
                        + TrivyStoredCount(heat.trivy_report, "MEDIUM"),
             low |-> TrivyStoredCount(heat.trivy_report, "LOW")]

\* C16: whatever reports are present or absent, each of the four risk
\* scores lies between 0 and 10, and a score is 0 when the report it is
\* computed from is absent.
C16_ScoresBounded ==
    heat # NoHeat =>
        /\ \A category \in DOMAIN heat.risks :
              Tenths(heat.risks[category]) \in 0..100
        /\ heat.trivy_report = JNull =>
              /\ Tenths(heat.risks.vulnerabilities) = 0
              /\ Tenths(heat.risks.containers) = 0
        /\ heat.sonarqube_report = JNull => Tenths(heat.risks.code_quality) = 0
        /\ heat.sbom_report = JNull => Tenths(heat.risks.dependencies) = 0

\* Scores at the cap, a score in between and the score of an absent report.
C16_Witness ==
    /\ heat # NoHeat
    /\ Tenths(heat.risks.code_quality) = 100
    /\ Tenths(heat.risks.vulnerabilities) = 12
    /\ heat.sbom_report = JNull
    /\ Tenths(heat.risks.dependencies) = 0

-----------------------------------------------------------------------------
(* Properties of Project.set_report and Project.get_report.                *)

\* The rows of a report type.
RowsOf(report_type) == {i \in DOMAIN rows : rows[i].report_type = report_type}

\* Whether every dict of a Python value has only strings as keys.
RECURSIVE StringKeyed(_)
StringKeyed(x) ==
    CASE x.k = "dict" -> FALSE
      [] x.k = "obj" -> \A s \in DOMAIN x.v : StringKeyed(x.v[s])
      [] x.k = "list" -> \A i \in DOMAIN x.v : StringKeyed(x.v[i])
      [] OTHER -> TRUE

\* C17 as written: after any interleaving of set_report calls the project
\* has at most one row per report type, and get_report returns exactly the
\* data of the last set_report completed for the type (None before the
\* first).
C17_OneReportWithLatestData ==
    \A report_type \in ReportTypes :
        /\ Cardinality(RowsOf(report_type)) <= 1
        /\ get_report(rows, report_type) =
              IF latest[report_type] = NoData THEN JNull ELSE latest[report_type]

\* C17 amended: at most one row per report type, and get_report returns what
\* json.loads makes of the json.dumps of the data of the last set_report
\* completed for the type, nothing of an earlier report: the data itself
\* when all its dict keys are strings, and otherwise the data with every
\* such key as a string (the by_type key None becomes 'null').
C17_OneReportWithLatestRoundTrip ==
    \A report_type \in ReportTypes :
        /\ Cardinality(RowsOf(report_type)) <= 1
        /\ get_report(rows, report_type) =
              IF latest[report_type] = NoData THEN JNull
              ELSE JsonValue(latest[report_type])
        /\ (latest[report_type] # NoData /\ StringKeyed(latest[report_type])) =>
              get_report(rows, report_type) = latest[report_type]

\* Two concurrent first uploads of one type: one has completed, the insert
\* of the other, with other data, was rejected.
C17_Witness ==
    \E p, q \in Requests :
        /\ tx[p].pc = "raised"
        /\ tx[q].pc = "returned"
        /\ tx[p].report_type = tx[q].report_type
        /\ tx[p].report = 0
        /\ tx[q].report = 0
        /\ tx[p].data # tx[q].data
        /\ get_report(rows, tx[q].report_type) = tx[q].data

-----------------------------------------------------------------------------
(* Properties of the raw data a report keeps.                              *)

\* C18: the raw_data of every SBOM report parse_sbom_report returns, from
\* JSON as from XML, is an input parse_sbom_report accepts again, and the
\* report it then returns equals the first one.
C18_RawDataReparses ==
    SbomReturned => ParseRawData(result.value.raw_data) = result

-----------------------------------------------------------------------------
(* Dense severity maps.                                                    *)

ImageScanReturned ==
    call \in {"parse_trivy_report", "parse_trivy_html_report"} /\ result.ok

\* C20: the severity map of every report a normalizer returns is dense: an
\* SBOM report (JSON or XML) has exactly the keys critical, high, medium, low,
\* info and unknown, an image-scan report (JSON or HTML) exactly the keys
\* CRITICAL, HIGH, MEDIUM, LOW and UNKNOWN, each with a value that is at
\* least zero.
C20_SeverityMapsDense ==
    /\ SbomReturned =>
           LET by_severity == result.value.vulnerabilities.by_severity
           IN /\ DOMAIN by_severity = SbomSeverityKeys
              /\ \A key \in DOMAIN by_severity : by_severity[key] \in Nat
    /\ ImageScanReturned =>
           LET by_severity == result.value.vulnerabilities.by_severity
           IN /\ DOMAIN by_severity = TrivySeverityKeys
              /\ \A key \in DOMAIN by_severity : by_severity[key] \in Nat

\* An HTML image scan with rows of one severity only has returned: the other
\* four counters are present and zero.
C20_Witness ==
    /\ call = "parse_trivy_html_report"
    /\ result.ok
    /\ content.tables # <<>>
    /\ result.value.vulnerabilities.by_severity["HIGH"] = 2
    /\ \A key \in TrivySeverityKeys \ {"HIGH"} :
           result.value.vulnerabilities.by_severity[key] = 0

-----------------------------------------------------------------------------
(* Repeated normalization.                                                 *)

\* The call in progress repeats the kept call: same normalizer, same content.
RepeatsKept == call # "none" /\ kept.call = call /\ kept.content = content

\* C19: two calls of a normalizer with the same raw input return equal
\* reports, or both raise, whatever calls happen before or between them.
C19_SameInputSameOutput == RepeatsKept => result = kept.result

-----------------------------------------------------------------------------
(* parse_trivy_html_report: nothing found, and the shape of the report.    *)

HtmlReturned == call = "parse_trivy_html_report"

\* The rows of the content that the table scan counts: not the first of their
\* table, at least four cells, one of them a severity label.
HtmlCountedRows(c) ==
    LET table_rows == HtmlRows(c)
    IN {i \in DOMAIN table_rows :
           /\ Len(table_rows[i]) >= 4
           /\ \E j \in DOMAIN table_rows[i] :
                  Upper(Strip(table_rows[i][j])) \in TrivySeverityKeys}

\* The text nodes of the content that mention CRITICAL, HIGH, MEDIUM or LOW
\* in an element whose text holds an integer.
HtmlCountedNodes(c) ==
    LET nodes == HtmlTextNodes(c)
    IN {i \in DOMAIN nodes :
           Mentions(nodes[i].text) # {} /\ FirstNumber(nodes[i].parent) >= 0}

\* C21: parse_trivy_html_report does not raise for markup in which nothing is
\* found: with no counted table row and no severity mention beside an
\* integer, it returns a report whose total is 0 and whose by_severity values
\* are all 0.
C21_NothingFoundIsAllZero ==
    (HtmlReturned /\ HtmlCountedRows(content) = {} /\ HtmlCountedNodes(content) = {})
    => /\ result.ok
       /\ result.value.vulnerabilities.total = 0
       /\ \A s \in TrivySeverityKeys : result.value.vulnerabilities.by_severity[s] = 0

\* Such a call has returned for markup that has a table row without a
\* severity and a text node that mentions a severity without a number.
C21_Witness ==
    /\ HtmlReturned /\ result.ok
    /\ HtmlCountedRows(content) = {} /\ HtmlCountedNodes(content) = {}
    /\ \E t \in DOMAIN content.tables : Len(content.tables[t]) >= 2
    /\ \E i \in DOMAIN content.nodes : Mentions(content.nodes[i].text) # {}
    /\ result.value.vulnerabilities.total = 0

\* The fields of the report parse_trivy_report returns.
TrivyReportFields == DOMAIN parse_trivy_report(JsonText(JObj(EmptyDict))).value

\* C22 as stated: the HTML report has the fields of the JSON report,
\* schema_version 'HTML', and raw_data is the markup text itself.
C22_HtmlRawDataIsTheText ==
    (HtmlReturned /\ result.ok)
    => /\ DOMAIN result.value = TrivyReportFields
       /\ DOMAIN result.value.vulnerabilities = {"total", "by_severity"}
       /\ result.value.schema_version = JStr("HTML")
       /\ result.value.raw_data = content

\* C22 amended: the HTML report has the fields of the JSON report,
\* schema_version 'HTML', and raw_data is a dict whose one key, html_content,
\* holds the markup text.
C22_HtmlRawDataWrapsTheText ==
    (HtmlReturned /\ result.ok)
    => /\ DOMAIN result.value = TrivyReportFields
       /\ TrivyReportFields = {"artifact_name", "artifact_type", "schema_version",
                               "vulnerabilities", "results", "raw_data"}
       /\ DOMAIN result.value.vulnerabilities = {"total", "by_severity"}
       /\ result.value.schema_version = JStr("HTML")
       /\ result.value.raw_data = JObj([html_content |-> content])

C22_Witness ==
    /\ HtmlReturned /\ result.ok
    /\ content.tables # <<>>
    /\ result.value.results.v # <<>>
    /\ result.value.raw_data.v["html_content"] = content

-----------------------------------------------------------------------------
(* The discovery strategies of _parse_sbom_xml, over the document as       *)
(* written.                                                                *)

\* The namespace an element of the document is in: its own, else the one the
\* xmlns attribute of the root declares.
NamespaceOf(c, e) == IF e.prefix # "" THEN e.prefix ELSE c.xmlns

\* The elements below the root that are named local in namespace ns.
Descendants(c, ns, local) ==
    LET elems == SrcIter(c.root)
    IN {i \in DOMAIN elems :
           i > 1 /\ elems[i].local = local /\ NamespaceOf(c, elems[i]) = ns}

\* The namespace of the first strategy: the one of the root tag, else the
\* first of 1.6, 1.5, 1.4, 1.3 in which the document has a component below
\* the root, else none ("").
KnownWithComponent == {i \in DOMAIN namespace_uris : Descendants(content, namespace_uris[i], "component") # {}}

StrategyNamespace ==
    IF NamespaceOf(content, content.root) # "" THEN NamespaceOf(content, content.root)
    ELSE IF KnownWithComponent = {} THEN ""
    ELSE namespace_uris[CHOOSE i \in KnownWithComponent : \A j \in KnownWithComponent : i <= j]

\* What each strategy yields for the content of the call.
Strategy1(local) ==
    IF StrategyNamespace = "" THEN {} ELSE Descendants(content, StrategyNamespace, local)
Strategy2(local) == Descendants(content, "", local)
Strategy3(local) == ElementsNamedLike(content, local)

\* The first strategy, in their order, that yields an element wins.
Discovered(local) ==
    IF Strategy1(local) # {} THEN Strategy1(local)
    ELSE IF Strategy2(local) # {} THEN Strategy2(local)
    ELSE Strategy3(local)

XmlReturned == SbomReturned /\ content.syntax = "xml"

\* C23: the components and the vulnerabilities of an XML SBOM are those the
\* first of three strategies with a non-empty result yields: the query under
\* the namespace of the root tag (or, without one, under the first known
\* CycloneDX namespace that has a component), the un-namespaced query, the
\* walk over every element whose tag ends with the name.
C23_FirstStrategyWins ==
    XmlReturned
    => /\ result.value.components.total = Cardinality(Discovered("component"))
       /\ result.value.vulnerabilities.total = Cardinality(Discovered("vulnerability"))

\* An XML SBOM has been normalized in which the namespaced query yields
\* nothing and the un-namespaced query yields fewer components than the walk
\* would: the walk is not consulted.
C23_Witness ==
    /\ XmlReturned
    /\ Strategy1("component") = {}
    /\ Strategy2("component") # {}
    /\ Cardinality(Strategy3("component")) > Cardinality(Strategy2("component"))
    /\ result.value.components.total = Cardinality(Strategy2("component"))

-----------------------------------------------------------------------------
(* The first rating of a JSON SBOM vulnerability.                          *)

\* The vulnerabilities of the JSON content of the call that have a rating.
RatedVulnerabilities ==
    LET vulnerabilities == Elements(Get(content.data.v, "vulnerabilities", JList(<<>>)))
    IN {i \in DOMAIN vulnerabilities :
           Elements(Get(vulnerabilities[i].v, "ratings", JList(<<>>))) # <<>>}

\* The severity of the first rating of the i-th vulnerability, lower-cased;
\* 'unknown' when that rating has none or one outside the six keys.
FirstRatingKey(i) ==
    LET r1 == content.data.v["vulnerabilities"].v[i].v["ratings"].v[1]
        named == "severity" \in DOMAIN r1.v /\ Lower(r1.v["severity"].v) \in SbomSeverityKeys
    IN IF named THEN Lower(r1.v["severity"].v) ELSE "unknown"

\* C24: in the report of a JSON SBOM every vulnerability with ratings is
\* counted once, under the lower-cased severity of its first rating
\* ('unknown' when that rating has no severity or an unmatched one), whatever
\* its later ratings are.
C24_FirstRatingCounts ==
    (SbomReturned /\ content.syntax = "json")
    => \A key \in SbomSeverityKeys :
           result.value.vulnerabilities.by_severity[key]
               = Cardinality({i \in RatedVulnerabilities : FirstRatingKey(i) = key})

\* A JSON SBOM has been normalized whose vulnerability has the ratings low
\* and critical, in that order: low is counted, critical is not.
C24_Witness ==
    /\ SbomReturned /\ content.syntax = "json"
    /\ \E i \in RatedVulnerabilities :
           /\ Len(content.data.v["vulnerabilities"].v[i].v["ratings"].v) = 2
           /\ FirstRatingKey(i) = "low"
    /\ result.value.vulnerabilities.by_severity["low"] = 1
    /\ result.value.vulnerabilities.by_severity["critical"] = 0

-----------------------------------------------------------------------------
(* The table scan of parse_trivy_html_report.                              *)

\* The label a cell text is, trimmed and whatever its case; None when it is
\* none of the five.
LabelOf(text) ==
    IF Upper(Strip(text)) \in TrivySeverityKeys THEN Upper(Strip(text)) ELSE None

\* The rows of the content of the call, each once: <<t, r>> is the r-th row
\* of the t-th table of the document.
TableRowsOf(c) ==
    LET tables == find_all_table(c.tables)
    IN UNION {{<<t, r>> : r \in DOMAIN tables[t]} : t \in DOMAIN tables}

RowAt(c, p) == find_all_table(c.tables)[p[1]][p[2]]

\* The rows that count according to the claim: not the first of their table,
\* at least four cells, one of them a label.
CountingRows(c) ==
    {p \in TableRowsOf(c) :
        /\ p[2] > 1
        /\ Len(RowAt(c, p)) >= 4
        /\ \E k \in DOMAIN RowAt(c, p) : LabelOf(get_text(RowAt(c, p)[k])) # None}

\* The label of the first cell of a counting row that is one.
FirstLabel(c, p) ==
    LET row == RowAt(c, p)
        k == CHOOSE i \in DOMAIN row :
                 /\ LabelOf(get_text(row[i])) # None
                 /\ \A j \in 1..(i - 1) : LabelOf(get_text(row[j])) = None
    IN LabelOf(get_text(row[k]))

\* The vulnerability entries of the report that carry a severity.
SeverityEntries ==
    IF result.value.results.v = <<>> THEN {}
    ELSE LET entries == result.value.results.v[1].v["Vulnerabilities"].v
         IN {i \in DOMAIN entries : "Severity" \in DOMAIN entries[i].v}

\* C25: in the table scan every row that is not the first of its table, has
\* at least four cells and has a cell that is one of the five labels adds
\* exactly 1 to the total and to the key of its first such cell, and no other
\* row adds anything.
C25_RowsCountOnce ==
    (HtmlReturned /\ result.ok)
    => /\ Cardinality(SeverityEntries) = Cardinality(CountingRows(content))
       /\ CountingRows(content) # {}
          => /\ result.value.vulnerabilities.total = Cardinality(CountingRows(content))
             /\ \A s \in TrivySeverityKeys :
                    result.value.vulnerabilities.by_severity[s]
                        = Cardinality({p \in CountingRows(content) :
                                          FirstLabel(content, p) = s})

\* The table-derived vulnerability entries of the report.
TableEntries ==
    IF result.value.results.v = <<>> THEN <<>>
    ELSE result.value.results.v[1].v["Vulnerabilities"].v

\* C26: when the results of an HTML report hold a table-derived vulnerability
\* entry, the total and by_severity count table rows only: one for each entry
\* with a severity, under that severity, and nothing from the text scan.
C26_NoTextCountsBesideTableEntries ==
    (HtmlReturned /\ result.ok /\ TableEntries # <<>>)
    => /\ result.value.vulnerabilities.total = Cardinality(SeverityEntries)
       /\ \A s \in TrivySeverityKeys :
              result.value.vulnerabilities.by_severity[s]
                  = Cardinality({i \in SeverityEntries :
                                    TableEntries[i].v["Severity"] = JStr(s)})

-----------------------------------------------------------------------------
(* Properties of upload_file.                                              *)

\* A request of upload_file answered with the error of one of the failures
\* the specification lists: a rejection before the try block, or a raising
\* normalizer.
UploadFailed(p) ==
    /\ tx[p].pc = "answered"
    /\ tx[p].status # 200
    /\ tx[p].cause \in {"rejected", "normalizer"}

\* The normalization of the file content a request uploaded.
OwnNormalized(p) ==
    Normalized(tx[p].report_type, tx[p].filename, tx[p].upload.body)

\* C27: whatever the interleaving of two upload_file requests, the report a
\* request stores is the normalization of the file content this request
\* uploaded.
C27_StoresItsOwnUpload ==
    \A p \in Requests :
        tx[p].pc \in {"returned", "answered"} /\ tx[p].data # NoData
        => /\ OwnNormalized(p).ok
           /\ tx[p].data = ReportDict(tx[p].report_type, tx[p].filename,
                                      OwnNormalized(p).value)

\* C28: when upload_file fails for one of the listed causes, the request
\* has stored no report and no file is left at the path it saved to.
C28_FailureLeavesNothing ==
    \A p \in Requests :
        UploadFailed(p)
        => /\ ~tx[p].stored
           /\ tx[p].saved => disk[tx[p].filepath] = NoFile

-----------------------------------------------------------------------------
(* Properties of find_or_create_project.                                   *)

\* C29: whatever the interleaving of find_or_create_project requests, no
\* two projects have the same name.
C29_OneProjectPerName ==
    \A i, j \in DOMAIN projects : projects[i].name = projects[j].name => i = j

-----------------------------------------------------------------------------
(* Properties of connect_project_sonarqube.                                *)

\* A connection whose fetch ran and which answered with an error.
ConnectFailed(p) ==
    tx[p].pc = "answered" /\ "was" \in DOMAIN tx[p] /\ tx[p].status # 200

\* C30: a connection whose fetch fails leaves the project's
\* sonar_project_key and its stored reports as they were.
C30_FailedFetchChangesNothing ==
    \A p \in Requests :
        ConnectFailed(p)
        => /\ projects[tx[p].project].sonar_project_key = tx[p].was.sonar_project_key
           /\ rows = tx[p].was.reports

=============================================================================
